---- MODULE Spec2Model ----
(***************************************************************************)
(* Delivery pipeline of the WeCom channel plugin: the access-token         *)
(* lifecycle of WeComApiClient (api client) and the send/retry logic of    *)
(* WeComMessageSender (src/src/send.ts).                                    *)
(*                                                                         *)
(* JavaScript runs one task to completion: the code between two real       *)
(* suspension points (a pending fetch, a pending setTimeout) is one atomic *)
(* step.  Every asynchronous call in progress is a stack of frames; a      *)
(* network response or a timer resumes the stack and runs it until the     *)
(* next fetch or setTimeout, or until the top-level call settles.          *)
(***************************************************************************)
EXTENDS Integers, Sequences, FiniteSets, TLC

\* ---------------------------------------------------------------- bounds
Procs == {"a", "b"}          \* concurrent callers of one sender / client
Solo == {"a"}                \* the caller of the sequential specification
MaxCalls == 2                \* top-level calls started in one behaviour
MaxTicks == 1                \* clock advances between calls in one behaviour
TickMs == 1000               \* milliseconds per clock advance between calls
MaxNest == 1                 \* refreshes nested inside a token request
MaxTokReqs == 8              \* token requests issued in one behaviour
MaxSendReqs == 5             \* send requests issued in one behaviour
MaxTextLen == 2              \* length of the message texts drawn from the alphabet
MaxMedia == 2                \* media items of a message
MaxContentLen == 4           \* length of the Content of an inbound text envelope

\* ------------------------------------------------------- program constants
SafetyMarginSec == 300       \* (expires_in - 300) * 1000
DefaultMaxRetries == 3       \* this.config.maxRetries || 3
BackoffBaseMs == 1000        \* 1000 * Math.pow(2, retryCount)
BackoffCapMs == 10000        \* Math.min(..., 10000)
WrapErrorCode == 500         \* new WeComSendError(..., 500, message)
DefaultTimeoutMs == 10000    \* this.config.timeoutMs || 10000
DefaultRefreshIntervalSec == 3600   \* this.config.tokenRefreshInterval || 3600

AuthCodes == {40014, 42001}                          \* request(): token expired / invalid
retryableErrors == {42001, 40014, 45033, 45009, 50001}
recoverableErrors == {42001, 40014, 45033}

\* ------------------------------------------------------- the environment
\* expires_in values the token endpoint may return (seconds)
ExpiresInSet == {300, 301, 7200}
\* errcodes the send endpoint may answer
SendCodes == {0, 42001, 40014, 45009, 45033, 50001, 60111, 60123, 40003}
\* errcodes the token endpoint may answer besides 0
TokenErrCodes == {40013, 42001}
MaxRetriesSet == {0, 1, 2}   \* config.maxRetries; 0 stands for unset too (0 || 3)
\* A string is a sequence of characters, <<>> the empty string (which stands for an
\* undefined string too where the code only tests truthiness).  An optional field
\* of an envelope is Undefined or Some(value).
Undefined == <<>>
Some(x) == <<x>>

\* String.prototype.startsWith
StartsWith(str, prefix) ==
    Len(prefix) <= Len(str) /\ SubSeq(str, 1, Len(prefix)) = prefix

\* the content record of an envelope (WeComMessageContent)
NoContent == [content |-> Undefined, media_id |-> Undefined, title |-> Undefined,
              description |-> Undefined, url |-> Undefined, btntxt |-> Undefined]

\* WeComSendMessageParams
Envelope(touser, toparty, msgtype, agentid, content) ==
    [touser |-> touser, toparty |-> toparty, totag |-> Undefined,
     msgtype |-> msgtype, agentid |-> agentid, content |-> content]

NoEnvelope == Envelope(Undefined, Undefined, "", 0, NoContent)

\* ChannelMessage: peer, text, media (type, url, caption), replyTo (Undefined or Some)
NoMessage == [peer |-> [kind |-> "", id |-> ""], text |-> <<>>, media |-> <<>>,
              replyTo |-> <<>>]

\* createMediaMessage(media, touser, toparty)
createMediaMessage(media, touser, toparty, agentId) ==
    LET type == media.type
        msgtype == CASE type = "image" -> "image"
                     [] type = "video" -> "video"
                     [] type = "audio" -> "voice"
                     [] type = "file" -> "file"
                     [] OTHER -> "text"
        content == IF msgtype # "text"
                   THEN [NoContent EXCEPT !.media_id = Some(media.url)]
                   ELSE [NoContent EXCEPT !.content =
                            Some(<<"[", type, "] ", media.url>>
                                 \o (IF media.caption # <<>>
                                     THEN <<"\n">> \o media.caption ELSE <<>>))]
        captioned == IF media.caption # <<>> /\ type # "file"
                     THEN [content EXCEPT !.content = Some(media.caption)]
                     ELSE content
    IN  Envelope(touser, toparty, msgtype, agentId, captioned)

\* mutant of contentText: the prefix is prepended without looking at the text
contentText_always(text, messagePrefix) == messagePrefix \o text

\* toWeComMessage(), lines 45-48: the text with the message prefix applied
contentText(text, messagePrefix) ==
    IF messagePrefix # <<>> /\ ~StartsWith(text, messagePrefix)
    THEN messagePrefix \o text
    ELSE text

\* toWeComMessage(), lines 51-53: `回复 ${replyTo.senderName || '用户'}:\n${contentText}`
replyText(replyTo, text) ==
    IF replyTo = <<>> THEN text
    ELSE <<"reply ">>
         \o (IF replyTo[1].senderName # <<>> THEN replyTo[1].senderName ELSE <<"user">>)
         \o <<":", "\n">> \o text

\* toWeComMessage(), lines 33-42: the recipient fields for a peer
touserOf(peer) == IF peer.kind = "dm" THEN Some(peer.id) ELSE Undefined
topartyOf(peer) == IF peer.kind = "group" THEN Some(peer.id) ELSE Undefined

\* mutant of toWeComMessage: a group message is addressed to the user field as well
toWeComMessage_bothRecipients(msg, agentId, messagePrefix) ==
    IF Len(msg.media) > 0
    THEN createMediaMessage(msg.media[1], Some(msg.peer.id), topartyOf(msg.peer), agentId)
    ELSE Envelope(Some(msg.peer.id), topartyOf(msg.peer), "text", agentId,
                  [NoContent EXCEPT !.content =
                      Some(replyText(msg.replyTo, contentText(msg.text, messagePrefix)))])

\* mutant of toWeComMessage: the last media item is sent instead of the first
toWeComMessage_lastMedia(msg, agentId, messagePrefix) ==
    IF Len(msg.media) > 0
    THEN createMediaMessage(msg.media[Len(msg.media)],
                            touserOf(msg.peer), topartyOf(msg.peer), agentId)
    ELSE Envelope(touserOf(msg.peer), topartyOf(msg.peer), "text", agentId,
                  [NoContent EXCEPT !.content =
                      Some(replyText(msg.replyTo, contentText(msg.text, messagePrefix)))])

\* toWeComMessage(msg) of an adapter built with (agentId, messagePrefix)
toWeComMessage(msg, agentId, messagePrefix) ==
    IF Len(msg.media) > 0
    THEN createMediaMessage(msg.media[1], touserOf(msg.peer), topartyOf(msg.peer), agentId)
    ELSE Envelope(touserOf(msg.peer), topartyOf(msg.peer), "text", agentId,
                  [NoContent EXCEPT !.content =
                      Some(replyText(msg.replyTo, contentText(msg.text, messagePrefix)))])

\* buildCardMessage(title, description, url, btntxt, touser, toparty)
buildCardMessage(title, description, url, btntxt, touser, toparty, agentId) ==
    Envelope(touser, toparty, "textcard", agentId,
             [NoContent EXCEPT !.title = Some(title), !.description = Some(description),
                               !.url = Some(url), !.btntxt = Some(btntxt)])

\* sendCard(), lines 188-195: the envelope handed to sendMessage
sendCard_envelope(to, title, description, url, btntxt, agentId) ==
    buildCardMessage(title, description, url, btntxt,
                     IF to.kind = "dm" THEN Some(to.id) ELSE Undefined,
                     IF to.kind = "group" THEN Some(to.id) ELSE Undefined,
                     agentId)

\* the characters of an inbound Content: "a", "b" are word characters (\w), "@"
\* and the blank are not
WordChars == {"a", "b"}

\* the run of word characters of s that begins at position i: what (\w+) captures
RECURSIVE WordRun(_, _)
WordRun(s, i) ==
    IF i <= Len(s) /\ s[i] \in WordChars THEN <<s[i]>> \o WordRun(s, i + 1) ELSE <<>>

\* /@(\w+)/ searched in s from position from on: the position of the "@" of the
\* leftmost match, 0 when there is none
RECURSIVE MentionExec(_, _)
MentionExec(s, from) ==
    IF from > Len(s) THEN 0
    ELSE IF s[from] = "@" /\ WordRun(s, from + 1) # <<>> THEN from
    ELSE MentionExec(s, from + 1)

\* mutant of extractMentionedUsers: the search stops at the first match
extractMentionedUsers_first(text) ==
    LET i == MentionExec(text, 1) IN
    IF i = 0 THEN <<>> ELSE <<WordRun(text, i + 1)>>

\* the loop of extractMentionedUsers(): /@(\w+)/g is executed from lastIndex (the
\* number of characters consumed so far) until it finds nothing
RECURSIVE extractMentionedUsers_loop(_, _)
extractMentionedUsers_loop(text, lastIndex) ==
    LET i == MentionExec(text, lastIndex + 1) IN
    IF i = 0 THEN <<>>
    ELSE LET match == WordRun(text, i + 1)
         IN  <<match>> \o extractMentionedUsers_loop(text, i + Len(match))

\* extractMentionedUsers(text): the regular expression is created by the call
extractMentionedUsers(text) == extractMentionedUsers_loop(text, 0)

\* ChannelMessage as fromWeComMessage builds it; text <<>>, media <<>>, location
\* Undefined and event Undefined are the fields that were not set
NoInbound == [peer |-> [kind |-> "", id |-> ""], timestamp |-> 0, id |-> "",
              accountId |-> 0, text |-> <<>>, mentions |-> <<>>, media |-> <<>>,
              location |-> Undefined, event |-> Undefined]

\* WeComReceivedMessage; an absent string is <<>> (Event, EventKey: ""), an absent
\* number is 0
NoReceived == [FromUserName |-> "", CreateTime |-> 0, MsgType |-> "", MsgId |-> "",
               AgentID |-> 0, Content |-> <<>>, MediaId |-> <<>>, PicUrl |-> <<>>,
               Location_X |-> 0, Location_Y |-> 0, Label |-> <<>>,
               Event |-> "", EventKey |-> ""]

\* fromWeComMessage(), lines 169-235: the content by message type
fromWeComMessage_content(msg, base) ==
    LET content == msg.Content
        mediaId == msg.MediaId
        picUrl == msg.PicUrl
        msgType == msg.MsgType
        item(type, url) == <<[type |-> type, url |-> url, caption |-> content]>>
    IN  CASE msgType = "text" ->
               IF content # <<>>
               THEN [base EXCEPT
                       !.text = content,
                       !.mentions =
                           LET i == MentionExec(content, 1) IN
                           IF i # 0
                           THEN <<[userId |-> WordRun(content, i + 1),
                                   name |-> WordRun(content, i + 1)]>>
                           ELSE <<>>]
               ELSE base
          [] msgType = "image" ->
               IF mediaId # <<>> \/ picUrl # <<>>
               THEN [base EXCEPT !.media = item("image", IF mediaId # <<>> THEN mediaId
                                                         ELSE picUrl)]
               ELSE base
          [] msgType = "voice" ->
               IF mediaId # <<>> THEN [base EXCEPT !.media = item("audio", mediaId)] ELSE base
          [] msgType = "video" ->
               IF mediaId # <<>> THEN [base EXCEPT !.media = item("video", mediaId)] ELSE base
          [] msgType = "file" ->
               IF mediaId # <<>> THEN [base EXCEPT !.media = item("file", mediaId)] ELSE base
          [] msgType = "location" ->
               [base EXCEPT
                  !.text = <<"location: ">>
                           \o (IF msg.Label # <<>> THEN msg.Label ELSE <<"unknown place">>),
                  !.location = Some([latitude |-> msg.Location_X,
                                     longitude |-> msg.Location_Y])]
          [] OTHER ->
               [base EXCEPT
                  !.text = <<"[", msgType, "] ">>
                           \o (IF content # <<>> THEN content ELSE <<"unknown type">>)]

\* fromWeComMessage(), lines 238-256: the event of the envelope
fromWeComMessage_event(msg, m) ==
    IF msg.Event = "" THEN m
    ELSE LET withEvent == [m EXCEPT !.event = Some([type |-> msg.Event,
                                                    key |-> msg.EventKey])]
         IN  CASE msg.Event = "subscribe" -> [withEvent EXCEPT !.text = <<"subscribed">>]
               [] msg.Event = "unsubscribe" -> [withEvent EXCEPT !.text = <<"unsubscribed">>]
               [] msg.Event = "enter_agent" -> [withEvent EXCEPT !.text = <<"entered">>]
               [] OTHER -> withEvent

\* fromWeComMessage(msg)
fromWeComMessage(msg) ==
    LET base == [NoInbound EXCEPT !.peer = [kind |-> "dm", id |-> msg.FromUserName],
                                  !.timestamp = msg.CreateTime * 1000,
                                  !.id = msg.MsgId,
                                  !.accountId = msg.AgentID]
    IN  fromWeComMessage_event(msg, fromWeComMessage_content(msg, base))

\* ------------------------------------------------------------ checkPermission
\* checkPermission(peer, config) of the plugin; allowFrom is the set of the list's
\* entries (the code asks `includes` only)
checkPermission(peer, dmPolicy, allowFrom) ==
    IF "*" \in allowFrom THEN TRUE
    ELSE IF peer.id \in allowFrom THEN TRUE
    ELSE IF dmPolicy = "pairing" /\ peer.kind = "dm" THEN TRUE
    ELSE dmPolicy = "open"

\* ------------------------------------------------------- validateWeComConfig
\* String.prototype.trim() of the strings configured here: blanks at both ends go
RECURSIVE trim(_)
trim(str) ==
    IF str = <<>> THEN <<>>
    ELSE IF Head(str) = " " THEN trim(Tail(str))
    ELSE IF str[Len(str)] = " " THEN trim(SubSeq(str, 1, Len(str) - 1))
    ELSE str

\* validateWeComConfig(config): the list of error messages, named here by their subject
validateWeComConfig(c) ==
    IF ~c.enabled THEN <<>>
    ELSE LET hasApiConfig == c.corpId # <<>> /\ c.corpSecret # <<>> /\ c.agentId # 0
             hasWebhookConfig == c.webhookUrl # <<>>
         IN  (IF ~hasApiConfig /\ ~hasWebhookConfig THEN <<"no mode">> ELSE <<>>)
             \o (IF hasApiConfig /\ hasWebhookConfig THEN <<"both modes">> ELSE <<>>)
             \o (IF hasApiConfig /\ trim(c.corpId) = <<>> THEN <<"corpId">> ELSE <<>>)
             \o (IF hasApiConfig /\ trim(c.corpSecret) = <<>> THEN <<"corpSecret">> ELSE <<>>)
             \o (IF hasApiConfig /\ c.agentId <= 0 THEN <<"agentId">> ELSE <<>>)
             \o (IF hasWebhookConfig /\ ~StartsWith(c.webhookUrl, <<"h", "t", "t", "p">>)
                 THEN <<"webhookUrl">> ELSE <<>>)

\* ------------------------------------------------------------ data shapes
NoToken == [access_token |-> 0, expires_in |-> 0, expires_at |-> 0]   \* accessToken = null
\* a response body: errcode, the fields of a token response, msgid at the top level
\* (the vendor's send response), data.msgid (what send() reads), media_id (upload)
NoData == [errcode |-> -1, access_token |-> 0, expires_in |-> 0,
           msgid |-> 0, data |-> [msgid |-> 0], media_id |-> 0]

Data(errcode, tok, exp) ==
    [NoData EXCEPT !.errcode = errcode, !.access_token = tok, !.expires_in = exp]
\* {errcode, errmsg, msgid} and {errcode, errmsg, data: {msgid}}
SendData(errcode, msgid, dataMsgid) ==
    [NoData EXCEPT !.errcode = errcode, !.msgid = msgid, !.data = [msgid |-> dataMsgid]]

\* {errcode, errmsg, media_id} of the upload endpoint
UploadData(errcode, media_id) == [NoData EXCEPT !.errcode = errcode, !.media_id = media_id]

Frame(fn, at, ep, data, code) ==
    [fn |-> fn, at |-> at, ep |-> ep, data |-> data, code |-> code, env |-> NoEnvelope]
\* the frame of sendMessage(params) holds the envelope
FrameEnv(fn, at, env) == [Frame(fn, at, "", NoData, 0) EXCEPT !.env = env]

NoSig == [k |-> "none", fn |-> "", ep |-> "", data |-> NoData, cls |-> "", msg |-> "",
          code |-> 0, delay |-> 0, val |-> 0, kind |-> "", success |-> FALSE,
          env |-> NoEnvelope]
SigCall(fn, ep, code) == [NoSig EXCEPT !.k = "call", !.fn = fn, !.ep = ep, !.code = code]
SigRetData(data) == [NoSig EXCEPT !.k = "ret", !.data = data]
SigRetVal(val) == [NoSig EXCEPT !.k = "ret", !.val = val]
SigRetVoid == [NoSig EXCEPT !.k = "ret"]
SigThrow(cls, msg, code) == [NoSig EXCEPT !.k = "throw", !.cls = cls, !.msg = msg, !.code = code]
SigFetch(ep) == [NoSig EXCEPT !.k = "fetch", !.ep = ep]
SigSleep(delay) == [NoSig EXCEPT !.k = "sleep", !.delay = delay]
SigNet(kind, data) == [NoSig EXCEPT !.k = "net", !.kind = kind, !.data = data]

\* what one call has done so far (observation only, never read by the program)
\* log: the requests, responses, stores and timers of the call, in order ("sendAuth"
\* is a send response carrying 42001 or 40014, "sendResp" any other send response);
\* firstCode, lastCode: the errcode of the first and of the latest send response
\* (-1: none yet); lastMsgid: the top-level msgid of the latest send response;
\* sameCode: every send response carried firstCode; xport: a send
\* request failed in transport; tokAllOk: every token request was answered with
\* errcode 0 and a token; tokWrites, rcWrites: writes of accessToken and retryCount;
\* tokCalls: invocations of refreshAccessToken(); uploadId: the media_id the latest
\* upload response carried with errcode 0 (0: none); envMedia: the media_id of the
\* envelope of the latest send request; reqAt: the time the latest request was
\* issued; abortAt: the time the latest request was aborted (-1: none was);
\* routes: the ways the requests of the call took to the vendor
NoObs == [log |-> <<>>, firstCode |-> -1, lastCode |-> -1, lastMsgid |-> 0,
          sameCode |-> TRUE, xport |-> FALSE, tokAllOk |-> TRUE, tokWrites |-> 0,
          rcWrites |-> 0, tokCalls |-> 0, uploadId |-> 0, envMedia |-> Undefined,
          reqAt |-> 0, abortAt |-> -1, routes |-> {}]

Top(s) == s[Len(s)]
Pop(s) == SubSeq(s, 1, Len(s) - 1)
Count(s, e) == Cardinality({i \in 1..Len(s) : s[i] = e})

RECURSIVE Pow2(_)
Pow2(n) == IF n = 0 THEN 1 ELSE 2 * Pow2(n - 1)
Min(a, b) == IF a < b THEN a ELSE b

Log(M, e) == [M EXCEPT !.obs.log = Append(@, e)]
Call(M, frame, fn, ep, code) ==
    [M EXCEPT !.stack = Append(@, frame), !.sig = SigCall(fn, ep, code)]
\* a call that passes an envelope
CallEnv(M, frame, fn, ep, env) ==
    [M EXCEPT !.stack = Append(@, frame), !.sig = [SigCall(fn, ep, 0) EXCEPT !.env = env]]
Settle(M, sig) == [M EXCEPT !.sig = sig]

\* ------------------------------------------------------------ WeComApiClient

\* this.config.timeoutMs || 10000
TimeoutOf(cfg) == IF cfg.timeoutMs = 0 THEN DefaultTimeoutMs ELSE cfg.timeoutMs

\* the abort timer of a request() call: id is the position of the call's frame on
\* the stack, deadline the time at which `controller.abort()` runs
Timer(id, deadline) == [id |-> id, deadline |-> deadline]

\* finally { clearTimeout(timeout) } of the request() call whose frame has just
\* been popped from the stack
clearTimeout(M) == [M EXCEPT !.timers = {t \in @ : t.id # Len(M.stack) + 1}]

\* request(), lines 183-189: the block for `this.config.proxy` is empty and
\* fetch(url, fetchOptions) is given no proxy, so the request connects to the host
\* of url whatever the configuration says
Route(cfg) == "direct"

\* request(), up to `await fetch(url, fetchOptions)`
request(M) ==
    LET ep == M.sig.ep IN
    [Log(M, CASE ep = "token" -> "tokReq"
              [] ep = "send" -> "sendReq"
              [] ep = "upload" -> "uploadReq") EXCEPT
        !.stack = Append(@, Frame("request", "fetch", ep, NoData, 0)),
        !.seq = IF ep = "token" THEN @ + 1 ELSE @,
        !.sends = IF ep = "send" THEN @ + 1 ELSE @,
        !.obs.envMedia = IF ep = "send" THEN M.sig.env.content.media_id ELSE @,
        !.obs.reqAt = M.now,
        !.obs.routes = @ \cup {Route(M.cfg)},
        !.timers = @ \cup {Timer(Len(M.stack) + 1, M.now + TimeoutOf(M.cfg))},
        !.sig = SigFetch(ep)]

\* mutant of request_fetched: the timer is not cleared when the response is an
\* HTTP error
request_fetched_noClear(M, f) ==
    LET r == M.sig
        ok == r.kind = "data" /\ r.data.errcode = 0
                 /\ (f.ep = "token" => r.data.access_token # 0)
        M1 == [M EXCEPT !.obs.tokAllOk = IF f.ep = "token" THEN @ /\ ok ELSE @,
                        !.obs.xport = IF f.ep = "send" THEN @ \/ r.kind # "data" ELSE @,
                        !.obs.firstCode = IF f.ep = "send" /\ r.kind = "data" /\ @ = -1
                                          THEN r.data.errcode ELSE @,
                        !.obs.sameCode = IF f.ep = "send" /\ r.kind = "data"
                                         THEN @ /\ M.obs.firstCode \in {-1, r.data.errcode}
                                         ELSE @,
                        !.obs.lastCode = IF f.ep = "send" /\ r.kind = "data"
                                         THEN r.data.errcode ELSE @,
                        !.obs.lastMsgid = IF f.ep = "send" /\ r.kind = "data"
                                          THEN r.data.msgid ELSE @,
                        !.obs.uploadId = IF f.ep = "upload" /\ ok
                                         THEN r.data.media_id ELSE @,
                        !.obs.log = CASE f.ep = "token" -> @
                                      [] f.ep = "upload" ->
                                            Append(@, IF ok THEN "uploadOk" ELSE "uploadFail")
                                      [] f.ep = "send" ->
                                            IF r.kind = "data" /\ r.data.errcode \in AuthCodes
                                            THEN Append(@, "sendAuth")
                                            ELSE Append(@, "sendResp")]
    IN  IF r.kind = "timeout"
        THEN Settle(clearTimeout([Log(M1, "abort") EXCEPT !.obs.abortAt = M.now]),
                    SigThrow("Error", "timeout", 0))
        ELSE IF r.kind = "http" THEN Settle(M1, SigThrow("Error", "http", 0))
        ELSE IF r.data.errcode \in AuthCodes
             THEN Call(M1, Frame("request", "refresh", f.ep, r.data, 0),
                       "refreshAccessToken", "", 0)
             ELSE Settle(clearTimeout(M1), SigRetData(r.data))

\* request(), from the fetch result to the return or the nested refresh
request_fetched(M, f) ==
    LET r == M.sig
        ok == r.kind = "data" /\ r.data.errcode = 0
                 /\ (f.ep = "token" => r.data.access_token # 0)
        M1 == [M EXCEPT !.obs.tokAllOk = IF f.ep = "token" THEN @ /\ ok ELSE @,
                        !.obs.xport = IF f.ep = "send" THEN @ \/ r.kind # "data" ELSE @,
                        !.obs.firstCode = IF f.ep = "send" /\ r.kind = "data" /\ @ = -1
                                          THEN r.data.errcode ELSE @,
                        !.obs.sameCode = IF f.ep = "send" /\ r.kind = "data"
                                         THEN @ /\ M.obs.firstCode \in {-1, r.data.errcode}
                                         ELSE @,
                        !.obs.lastCode = IF f.ep = "send" /\ r.kind = "data"
                                         THEN r.data.errcode ELSE @,
                        !.obs.lastMsgid = IF f.ep = "send" /\ r.kind = "data"
                                          THEN r.data.msgid ELSE @,
                        !.obs.uploadId = IF f.ep = "upload" /\ ok
                                         THEN r.data.media_id ELSE @,
                        !.obs.log = CASE f.ep = "token" -> @
                                      [] f.ep = "upload" ->
                                            Append(@, IF ok THEN "uploadOk" ELSE "uploadFail")
                                      [] f.ep = "send" ->
                                            IF r.kind = "data" /\ r.data.errcode \in AuthCodes
                                            THEN Append(@, "sendAuth")
                                            ELSE Append(@, "sendResp")]
    IN  IF r.kind = "timeout"
        THEN Settle(clearTimeout([Log(M1, "abort") EXCEPT !.obs.abortAt = M.now]),
                    SigThrow("Error", "timeout", 0))
        ELSE IF r.kind = "http" THEN Settle(clearTimeout(M1), SigThrow("Error", "http", 0))
        ELSE IF r.data.errcode \in AuthCodes
             THEN Call(M1, Frame("request", "refresh", f.ep, r.data, 0),
                       "refreshAccessToken", "", 0)
             ELSE Settle(clearTimeout(M1), SigRetData(r.data))

\* request(), after `await this.refreshAccessToken()` of line 201
request_refreshed(M, f) ==
    IF M.sig.k = "throw" THEN clearTimeout(M) ELSE Settle(clearTimeout(M), SigRetData(f.data))

\* mutant of refreshAccessToken: corpId and corpSecret are not looked at
refreshAccessToken_unchecked(M) ==
    LET M1 == [M EXCEPT !.obs.tokCalls = @ + 1] IN
    Call(M1, Frame("refreshAccessToken", "request", "", NoData, 0), "request", "token", 0)

\* refreshAccessToken(), up to `await this.request(...)`
refreshAccessToken(M) ==
    LET M1 == [M EXCEPT !.obs.tokCalls = @ + 1] IN
    IF ~M.cfg.hasCreds
    THEN Settle(M1, SigThrow("Error", "config", 0))
    ELSE Call(M1, Frame("refreshAccessToken", "request", "", NoData, 0), "request", "token", 0)

\* mutant of ExpiresAt: the lifetime is stored instead of the instant of expiry
ExpiresAt_relative(now, expires_in) == (expires_in - SafetyMarginSec) * 1000

\* expires_at: Date.now() + (response.expires_in - 300) * 1000
ExpiresAt(now, expires_in) == now + (expires_in - SafetyMarginSec) * 1000

\* refreshAccessToken(), from the response to the end
refreshAccessToken_responded(M, f) ==
    IF M.sig.k = "throw" THEN M
    ELSE LET response == M.sig.data IN
         IF response.errcode = 0 /\ response.access_token # 0
         THEN [Log(M, "tokStored") EXCEPT
                 !.tok = [access_token |-> response.access_token,
                          expires_in |-> response.expires_in,
                          expires_at |-> ExpiresAt(M.now, response.expires_in)],
                 !.obs.tokWrites = @ + 1,
                 !.sig = SigRetVoid]
         ELSE Settle(M, SigThrow("Error", "token", response.errcode))

\* mutant of NeedsRefresh: the comparison with expires_at is inverted
NeedsRefresh_inverted(tok, now) == tok = NoToken \/ now <= tok.expires_at

\* the test of getAccessToken(): no token, or the token has expired
NeedsRefresh(tok, now) == tok = NoToken \/ now >= tok.expires_at

\* getAccessToken(), up to `await this.refreshAccessToken()` or the return
getAccessToken(M) ==
    IF NeedsRefresh(M.tok, M.now)
    THEN Call(M, Frame("getAccessToken", "refresh", "", NoData, 0), "refreshAccessToken", "", 0)
    ELSE Settle(M, SigRetVal(M.tok.access_token))

\* getAccessToken(), after the refresh
getAccessToken_refreshed(M, f) ==
    IF M.sig.k = "throw" THEN M
    ELSE IF M.tok = NoToken THEN Settle(M, SigThrow("Error", "notoken", 0))
    ELSE Settle(M, SigRetVal(M.tok.access_token))

\* mutant of sendMessage: the request is sent without acquiring a token first
sendMessage_noToken(M) ==
    CallEnv(M, Frame("sendMessage", "request", "", NoData, 0), "request", "send", M.sig.env)

\* sendMessage(), up to `await this.getAccessToken()`
sendMessage(M) ==
    Call(M, FrameEnv("sendMessage", "token", M.sig.env), "getAccessToken", "", 0)

\* sendMessage(), `return this.request(url, ...)`
sendMessage_token(M, f) ==
    IF M.sig.k = "throw" THEN M
    ELSE CallEnv(M, Frame("sendMessage", "request", "", NoData, 0), "request", "send", f.env)

\* sendMessage(), the request's outcome is the outcome of sendMessage
sendMessage_requested(M, f) == M

\* uploadMedia(), up to `await this.getAccessToken()`
uploadMedia(M) ==
    Call(M, Frame("uploadMedia", "token", "", NoData, 0), "getAccessToken", "", 0)

\* uploadMedia(), up to `await this.request(url, {method: 'POST', body: formData})`
uploadMedia_token(M, f) ==
    IF M.sig.k = "throw" THEN M
    ELSE Call(M, Frame("uploadMedia", "request", "", NoData, 0), "request", "upload", 0)

\* mutant of uploadMedia_requested: the errcode of the upload response is not looked at
uploadMedia_requested_unchecked(M, f) ==
    IF M.sig.k = "throw" THEN M
    ELSE Settle(M, SigRetVal(M.sig.data.media_id))

\* uploadMedia(), from the response to the return of {type, media_id, created_at}
uploadMedia_requested(M, f) ==
    IF M.sig.k = "throw" THEN M
    ELSE IF M.sig.data.errcode # 0
         THEN Settle(M, SigThrow("Error", "upload", M.sig.data.errcode))
         ELSE Settle(M, SigRetVal(M.sig.data.media_id))

\* (this.config.tokenRefreshInterval || 3600) * 1000
RefreshIntervalMs(cfg) ==
    (IF cfg.tokenRefreshInterval = 0 THEN DefaultRefreshIntervalSec
     ELSE cfg.tokenRefreshInterval) * 1000

\* initialize(), up to `await this.refreshAccessToken()`; a client without corpId
\* or corpSecret does nothing
initialize(M) ==
    IF M.cfg.hasCreds
    THEN Call(M, Frame("initialize", "refresh", "", NoData, 0), "refreshAccessToken", "", 0)
    ELSE Settle(M, SigRetVoid)

\* initialize(), after the first refresh: `this.tokenRefreshTimer = setInterval(...)`;
\* an interval the handle named before stays in the event loop
initialize_refreshed(M, f) ==
    IF M.sig.k = "throw" THEN M
    ELSE [Log(M, "setInterval") EXCEPT
            !.orphans = IF M.refreshTimer # 0 THEN Append(@, M.refreshTimer) ELSE @,
            !.refreshTimer = M.now + RefreshIntervalMs(M.cfg),
            !.sig = SigRetVoid]

\* the callback of the interval: `this.refreshAccessToken().catch(...)`
tokenRefreshCallback(M) ==
    Call(M, Frame("tokenRefreshCallback", "refresh", "", NoData, 0),
         "refreshAccessToken", "", 0)

\* the callback of the interval, once the refresh has settled: a rejection is logged
\* by the catch handler and goes no further
tokenRefreshCallback_settled(M, f) ==
    IF M.sig.k = "throw" THEN Settle(Log(M, "refreshFailed"), SigRetVoid) ELSE M

\* -------------------------------------------------------- WeComMessageSender

\* this.config.maxRetries || 3
MaxRetriesOf(cfg) == IF cfg.maxRetries = 0 THEN DefaultMaxRetries ELSE cfg.maxRetries

\* mutant of shouldRetry: the bound is compared with <= (one retry too many)
shouldRetry_offByOne(errorCode, rc, cfg) ==
    errorCode \in retryableErrors /\ rc <= MaxRetriesOf(cfg)

\* mutant of shouldRetry: the error code is not looked up in the retryable list
shouldRetry_anyCode(errorCode, rc, cfg) == rc < MaxRetriesOf(cfg)

\* shouldRetry(errorCode)
shouldRetry(errorCode, rc, cfg) ==
    errorCode \in retryableErrors /\ rc < MaxRetriesOf(cfg)

\* mutant of isRecoverable: the retryable list is consulted instead
isRecoverable_retryable(errorCode) == errorCode \in retryableErrors

\* WeComSendError.isRecoverable()
isRecoverable(errorCode) == errorCode \in recoverableErrors

\* mutant of sendCatch: every error is rethrown as it is, without wrapping
sendCatch_rethrow(sig) == sig

\* the catch block of send(): a WeComSendError is rethrown, anything else is
\* wrapped into a WeComSendError with code 500
sendCatch(sig) ==
    IF sig.cls = "WeComSendError" THEN sig
    ELSE SigThrow("WeComSendError", sig.msg, WrapErrorCode)

\* `wecom-${Date.now()}`: an id generated locally; the ids the vendor issues are
\* positive, a local id is the negative number that encodes the clock
LocalMessageId(now) == 0 - (now + 1)

\* {success: true, messageId: response.data?.msgid || `wecom-${Date.now()}`}
SendResult(response, now) ==
    [SigRetVoid EXCEPT !.success = TRUE,
                       !.val = IF response.data.msgid # 0 THEN response.data.msgid
                               ELSE LocalMessageId(now)]

\* send(), up to `await this.apiClient.sendMessage(wecomMessage)`
send(M) ==
    CallEnv(M, Frame("send", "sendMessage", "", NoData, 0), "sendMessage", "",
            toWeComMessage(M.msg, M.cfg.agentId, M.cfg.messagePrefix))

\* mutant of send_responded: a success leaves retryCount as it is
send_responded_noReset(M, f) ==
    IF M.sig.k = "throw" THEN Settle(M, sendCatch(M.sig))
    ELSE LET response == M.sig.data IN
         IF response.errcode = 0
         THEN Settle(M, SendResult(response, M.now))
         ELSE IF shouldRetry(response.errcode, M.rc, M.cfg)
              THEN Call(M, Frame("send", "retrySend", "", NoData, 0),
                        "retrySend", "", response.errcode)
              ELSE Settle(M, sendCatch(SigThrow("WeComSendError", "vendor", response.errcode)))

\* mutant of send_responded: an exception of sendMessage is retried like a
\* retryable code
send_responded_retryThrown(M, f) ==
    IF M.sig.k = "throw"
    THEN IF M.rc < MaxRetriesOf(M.cfg)
         THEN Call(M, Frame("send", "retrySend", "", NoData, 0), "retrySend", "", 0)
         ELSE Settle(M, sendCatch(M.sig))
    ELSE LET response == M.sig.data IN
         IF response.errcode = 0
         THEN [M EXCEPT !.rc = 0,
                        !.obs.rcWrites = @ + 1,
                        !.sig = SendResult(response, M.now)]
         ELSE IF shouldRetry(response.errcode, M.rc, M.cfg)
              THEN Call(M, Frame("send", "retrySend", "", NoData, 0),
                        "retrySend", "", response.errcode)
              ELSE Settle(M, sendCatch(SigThrow("WeComSendError", "vendor", response.errcode)))

\* send(), from the response of sendMessage to the return, the throw or the retry
send_responded(M, f) ==
    IF M.sig.k = "throw" THEN Settle(M, sendCatch(M.sig))
    ELSE LET response == M.sig.data IN
         IF response.errcode = 0
         THEN [M EXCEPT !.rc = 0,
                        !.obs.rcWrites = @ + 1,
                        !.sig = SendResult(response, M.now)]
         ELSE IF shouldRetry(response.errcode, M.rc, M.cfg)
              THEN Call(M, Frame("send", "retrySend", "", NoData, 0),
                        "retrySend", "", response.errcode)
              ELSE Settle(M, sendCatch(SigThrow("WeComSendError", "vendor", response.errcode)))

\* send(), after `return await this.retrySend(message, error)`
send_retried(M, f) ==
    IF M.sig.k = "throw" THEN Settle(M, sendCatch(M.sig)) ELSE M

\* the backoff of retrySend(): Math.min(1000 * Math.pow(2, this.retryCount), 10000)
BackoffDelay(rc) == Min(BackoffBaseMs * Pow2(rc), BackoffCapMs)

\* retrySend(), up to the setTimeout of the backoff
retrySend(M) ==
    LET rc == M.rc + 1 IN
    [Log(M, "sleep") EXCEPT
        !.rc = rc,
        !.obs.rcWrites = @ + 1,
        !.stack = Append(@, Frame("retrySend", "sleep", "", NoData, M.sig.code)),
        !.sig = SigSleep(BackoffDelay(rc))]

\* mutant of retrySend_woken: the token is not refreshed after a token error
retrySend_woken_noRefresh(M, f) ==
    Call(Log(M, "wake"), Frame("retrySend", "send", "", NoData, 0), "send", "", 0)

\* mutant of retrySend_woken: the retry of a message with media goes through
\* sendMedia again
retrySend_woken_reupload(M, f) ==
    IF f.code \in AuthCodes
    THEN Call(Log(M, "wake"), Frame("retrySend", "refresh", "", NoData, 0),
              "refreshAccessToken", "", 0)
    ELSE Call(Log(M, "wake"), Frame("retrySend", "send", "", NoData, 0),
              IF M.msg.media # <<>> THEN "sendMedia" ELSE "send", "", 0)

\* retrySend(), after the backoff: refresh the token for a token error, then send
retrySend_woken(M, f) ==
    IF f.code \in AuthCodes
    THEN Call(Log(M, "wake"), Frame("retrySend", "refresh", "", NoData, 0),
              "refreshAccessToken", "", 0)
    ELSE Call(Log(M, "wake"), Frame("retrySend", "send", "", NoData, 0), "send", "", 0)

\* retrySend(), after `await this.apiClient.refreshAccessToken()`
retrySend_refreshed(M, f) ==
    IF M.sig.k = "throw" THEN M
    ELSE Call(M, Frame("retrySend", "send", "", NoData, 0), "send", "", 0)

\* retrySend(), `return this.send(message)`
retrySend_sent(M, f) == M

\* sendMedia(to, media), up to `await this.apiClient.uploadMedia(...)`
sendMedia(M) ==
    IF M.msg.media = <<>>
    THEN Settle(M, SigThrow("Error", "nomedia", 0))
    ELSE Call(M, Frame("sendMedia", "upload", "", NoData, 0), "uploadMedia", "", 0)

\* sendMedia(), from the upload result to `return this.send(message)`: the message
\* carries the first item alone, its url is the media_id of the upload
sendMedia_uploaded(M, f) ==
    IF M.sig.k = "throw" THEN M
    ELSE LET mediaItem == M.msg.media[1]
             message == [M.msg EXCEPT !.media = <<[type |-> mediaItem.type,
                                                   url |-> M.sig.val,
                                                   caption |-> mediaItem.caption]>>]
         IN  Call([M EXCEPT !.msg = message],
                  Frame("sendMedia", "send", "", NoData, 0), "send", "", 0)

\* sendMedia(), the outcome of send() is the outcome of sendMedia()
sendMedia_sent(M, f) == M

\* mutant of sendCard_responded: the response is handled the way send() handles it
sendCard_responded_asSend(M, f) ==
    IF M.sig.k = "throw" THEN Settle(M, sendCatch(M.sig))
    ELSE LET response == M.sig.data IN
         IF response.errcode = 0
         THEN [M EXCEPT !.rc = 0,
                        !.obs.rcWrites = @ + 1,
                        !.sig = SendResult(response, M.now)]
         ELSE IF shouldRetry(response.errcode, M.rc, M.cfg)
              THEN Call(M, Frame("send", "retrySend", "", NoData, 0),
                        "retrySend", "", response.errcode)
              ELSE Settle(M, sendCatch(SigThrow("WeComSendError", "vendor", response.errcode)))

\* sendCard(), from the response of sendMessage to the return or the throw: errcode
\* 0 is a success, any other code a WeComSendError; an error thrown by sendMessage
\* passes through as it is
sendCard_responded(M, f) ==
    IF M.sig.k = "throw" THEN M
    ELSE LET response == M.sig.data IN
         IF response.errcode = 0
         THEN Settle(M, SendResult(response, M.now))
         ELSE Settle(M, SigThrow("WeComSendError", "vendor", response.errcode))

\* sendCard(to, title, description, url, btntxt), up to
\* `await this.apiClient.sendMessage(cardMessage)`; the title is the message's text
sendCard(M) ==
    CallEnv(M, Frame("sendCard", "sendMessage", "", NoData, 0), "sendMessage", "",
            sendCard_envelope(M.msg.peer, M.msg.text, <<"d">>, <<"u">>, <<"b">>,
                              M.cfg.agentId))

\* ------------------------------------------------------------ the event loop

\* a call enters the function named by the signal
Enter(M) ==
    CASE M.sig.fn = "request" -> request(M)
      [] M.sig.fn = "refreshAccessToken" -> refreshAccessToken(M)
      [] M.sig.fn = "getAccessToken" -> getAccessToken(M)
      [] M.sig.fn = "sendMessage" -> sendMessage(M)
      [] M.sig.fn = "send" -> send(M)
      [] M.sig.fn = "retrySend" -> retrySend(M)
      [] M.sig.fn = "uploadMedia" -> uploadMedia(M)
      [] M.sig.fn = "sendMedia" -> sendMedia(M)
      [] M.sig.fn = "sendCard" -> sendCard(M)
      [] M.sig.fn = "initialize" -> initialize(M)
      [] M.sig.fn = "tokenRefreshCallback" -> tokenRefreshCallback(M)

\* an awaited value (or exception) resumes the frame on top of the stack
Resume(M) ==
    LET f == Top(M.stack)
        M1 == [M EXCEPT !.stack = Pop(@)]
    IN  CASE f.fn = "request" /\ f.at = "fetch" -> request_fetched(M1, f)
          [] f.fn = "request" /\ f.at = "refresh" -> request_refreshed(M1, f)
          [] f.fn = "refreshAccessToken" -> refreshAccessToken_responded(M1, f)
          [] f.fn = "getAccessToken" -> getAccessToken_refreshed(M1, f)
          [] f.fn = "sendMessage" /\ f.at = "token" -> sendMessage_token(M1, f)
          [] f.fn = "sendMessage" /\ f.at = "request" -> sendMessage_requested(M1, f)
          [] f.fn = "send" /\ f.at = "sendMessage" -> send_responded(M1, f)
          [] f.fn = "send" /\ f.at = "retrySend" -> send_retried(M1, f)
          [] f.fn = "retrySend" /\ f.at = "sleep" -> retrySend_woken(M1, f)
          [] f.fn = "retrySend" /\ f.at = "refresh" -> retrySend_refreshed(M1, f)
          [] f.fn = "retrySend" /\ f.at = "send" -> retrySend_sent(M1, f)
          [] f.fn = "uploadMedia" /\ f.at = "token" -> uploadMedia_token(M1, f)
          [] f.fn = "uploadMedia" /\ f.at = "request" -> uploadMedia_requested(M1, f)
          [] f.fn = "sendMedia" /\ f.at = "upload" -> sendMedia_uploaded(M1, f)
          [] f.fn = "sendMedia" /\ f.at = "send" -> sendMedia_sent(M1, f)
          [] f.fn = "sendCard" -> sendCard_responded(M1, f)
          [] f.fn = "initialize" -> initialize_refreshed(M1, f)
          [] f.fn = "tokenRefreshCallback" -> tokenRefreshCallback_settled(M1, f)

\* run the task to completion: until a fetch or a timer is pending, or the
\* top-level call has settled
RECURSIVE Exec(_)
Exec(M) ==
    IF M.sig.k = "call" THEN Exec(Enter(M))
    ELSE IF M.sig.k \in {"ret", "throw", "net", "woken"} /\ M.stack # <<>> THEN Exec(Resume(M))
    ELSE M

\* ------------------------------------------------------------------ state
VARIABLES
    config,        \* WeComConfig: hasCreds (corpId and corpSecret), webhookUrl, maxRetries,
                   \* agentId, messagePrefix, timeoutMs (0: unset),
                   \* tokenRefreshInterval (seconds, 0: unset), proxy (set or not)
    accessToken,   \* WeComApiClient.accessToken (NoToken = null)
    tokenRefreshTimer, \* WeComApiClient.tokenRefreshTimer: the time at which the
                   \* interval fires next (0 = null)
    orphanTimers,  \* the due times of the intervals that setInterval created and the
                   \* handle tokenRefreshTimer no longer names (they were never cleared)
    retryCount,    \* WeComMessageSender.retryCount
    now,           \* Date.now(), ms since construction
    ttl,           \* the expires_in the vendor grants (seconds), fixed for a behaviour
    seq,           \* number of token requests issued; names the token a request returns
    sends,         \* number of send requests issued
    proc,          \* the calls in progress, one record per caller
    calls,         \* top-level calls started
    ticks,         \* clock advances made
    pure           \* a call of a function without state: its arguments and its result

vars == <<config, accessToken, tokenRefreshTimer, orphanTimers, retryCount, now, ttl, seq,
          sends, proc, calls, ticks, pure>>

IdleProc ==
    [st |-> "idle", op |-> "", msg |-> NoMessage, stack |-> <<>>, timers |-> {},
     ep |-> "", reqId |-> 0,
     wake |-> 0, result |-> NoSig, obs |-> NoObs,
     startTok |-> NoToken, startRc |-> 0, startNow |-> 0, endTok |-> NoToken,
     heldTok |-> NoToken, alone |-> TRUE]

\* the configurations of a sender: the enterprise API mode (corpId and corpSecret),
\* the webhook mode (webhookUrl alone), or neither; maxRetries
Configs ==
    {c \in [hasCreds : BOOLEAN, webhookUrl : BOOLEAN, maxRetries : MaxRetriesSet,
            agentId : {1}, messagePrefix : {<<>>}, timeoutMs : {0},
            tokenRefreshInterval : {0}, proxy : {FALSE}] :
        c.hasCreds => ~c.webhookUrl}

\* the arguments of the functions without state
NoConfigInput == [enabled |-> FALSE, corpId |-> <<>>, corpSecret |-> <<>>, agentId |-> 0,
                  webhookUrl |-> <<>>, messagePrefix |-> <<>>]
NoPure == [fn |-> "", kind |-> "", cfg |-> NoConfigInput, msg |-> NoMessage,
           errors |-> <<>>, env |-> NoEnvelope, prev |-> NoEnvelope]

\* the arguments and results of the functions of the inbound side
NoCall == [fn |-> "", kind |-> "", cfg |-> NoConfigInput, errors |-> <<>>,
           received |-> NoReceived, inbound |-> NoInbound,
           text |-> <<>>, mentions |-> <<>>, again |-> <<>>,
           peer |-> [kind |-> "", id |-> ""], dmPolicy |-> "", allowFrom |-> {},
           granted |-> FALSE, name |-> ""]

Strings(n) == UNION {[1..k -> {"a", "b"}] : k \in 0..n}
MessagePrefixes == {<<>>, <<"a">>, <<"[", "A", "I", "]", " ">>}
TextInputs ==
    LET base == Strings(MaxTextLen) \cup {<<"h", "i">>}
    IN  base \cup {prefix \o t : prefix \in MessagePrefixes, t \in base}
PeerInputs == [kind : {"dm", "group", "channel"}, id : {"u1"}]
ReplyInputs == {<<>>, <<[senderName |-> <<>>]>>, <<[senderName |-> <<"b">>]>>}
MediaItems ==
    [type : {"image", "audio", "video", "file", "sticker"}, url : {1, 2},
     caption : {<<>>, <<"c">>}]
MediaInputs == UNION {[1..k -> MediaItems] : k \in 1..MaxMedia}

\* messages with a text, messages with media, and replies that carry one media item
MessageInputs ==
    [peer : PeerInputs, text : TextInputs, media : {<<>>}, replyTo : ReplyInputs]
    \cup [peer : PeerInputs, text : {<<>>, <<"h", "i">>}, media : MediaInputs,
          replyTo : {<<>>}]
    \cup [peer : PeerInputs, text : {<<"h", "i">>}, media : [1..1 -> MediaItems],
          replyTo : ReplyInputs \ {<<>>}]

\* corpId, corpSecret: unset, blank, set; agentId: unset (0), negative, set;
\* webhookUrl: unset, not a URL, a URL
NameInputs == {<<>>, <<" ">>, <<"w", "w">>}
ConfigInputs ==
    [enabled : BOOLEAN, corpId : NameInputs, corpSecret : NameInputs,
     agentId : {0, -1, 1},
     webhookUrl : {<<>>, <<"f", "t", "p", ":">>, <<"h", "t", "t", "p", "s", ":">>},
     messagePrefix : {<<>>}]

\* inbound envelopes: every message type with its fields present or absent, and
\* text envelopes with every short Content
ContentInputs == UNION {[1..k -> WordChars \cup {"@", " "}] : k \in 0..MaxContentLen}
ReceivedInputs ==
    {[NoReceived EXCEPT !.FromUserName = "u1", !.CreateTime = 5, !.MsgId = "m1",
                        !.AgentID = 1, !.MsgType = t, !.Content = c, !.MediaId = m,
                        !.PicUrl = u, !.Label = l, !.Location_X = x, !.Event = e,
                        !.EventKey = k] :
        t \in {"text", "image", "voice", "video", "file", "location", "link"},
        c \in {<<>>, <<"a">>}, m \in {<<>>, <<"m">>}, u \in {<<>>, <<"p">>},
        l \in {<<>>, <<"l">>}, x \in {0, 3},
        e \in {"", "subscribe", "unsubscribe", "enter_agent", "click"}, k \in {"", "k"}}
    \cup {[NoReceived EXCEPT !.FromUserName = "u1", !.CreateTime = 5, !.MsgId = "m1",
                             !.AgentID = 1, !.MsgType = "text", !.Content = c] :
            c \in ContentInputs}

\* the test configurations of the repository, by name: 'ww...' is a corpId with
\* the vendor's prefix, 'invalid-id' one without it
Fixtures ==
    LET Fixture(name, corpId, corpSecret, agentId, webhookUrl) ==
            [NoCall EXCEPT !.kind = "fixture", !.name = name,
                           !.cfg = [NoConfigInput EXCEPT !.enabled = TRUE,
                                                         !.corpId = corpId,
                                                         !.corpSecret = corpSecret,
                                                         !.agentId = agentId,
                                                         !.webhookUrl = webhookUrl]]
        ww == <<"w", "w", "x">>
        secret == <<"x">>
        url == <<"h", "t", "t", "p", "s", ":">>
    IN  {Fixture("validEnterpriseConfig", ww, secret, 1, <<>>),
         Fixture("validWebhookConfig", <<>>, <<>>, 0, url),
         Fixture("invalidConfigMissingParams", <<>>, <<>>, 0, <<>>),
         Fixture("invalidConfigMixedModes", ww, secret, 1, url),
         Fixture("invalidConfigBadCorpId", <<"i", "d">>, secret, 1, <<>>),
         Fixture("invalidConfigBadAgentId", ww, secret, -1, <<>>),
         Fixture("invalidConfigBadWebhookUrl", <<>>, <<>>, 0, <<"n", "o", "t">>)}

\* the inbound envelopes, the texts, the test configurations, and the peers,
\* policies and allow lists of checkPermission
InboundInputs ==
    Fixtures \cup
    {[NoCall EXCEPT !.kind = "received", !.received = r] : r \in ReceivedInputs} \cup
    {[NoCall EXCEPT !.kind = "permission", !.peer = peer, !.dmPolicy = policy,
                    !.allowFrom = list] :
        peer \in [kind : {"dm", "group", "channel"}, id : {"u1", "u2"}],
        policy \in {"pairing", "open"}, list \in SUBSET {"*", "u1", "u3"}} \cup
    {[NoCall EXCEPT !.kind = "text", !.text = c] : c \in ContentInputs}

PureInputs ==
    {[NoPure EXCEPT !.kind = "config", !.cfg = c] : c \in ConfigInputs}
    \cup {[NoPure EXCEPT !.kind = "message", !.msg = m,
                         !.cfg = [NoConfigInput EXCEPT !.enabled = TRUE, !.agentId = 1,
                                                       !.messagePrefix = prefix]] :
            m \in MessageInputs, prefix \in MessagePrefixes}

\* the state after construction of a sender configured with one of configs
InitWith(configs) ==
    /\ pure = NoPure
    /\ config \in configs
    /\ accessToken = NoToken
    /\ tokenRefreshTimer = 0
    /\ orphanTimers = <<>>
    /\ retryCount = 0
    /\ now = 0
    /\ ttl \in ExpiresInSet
    /\ seq = 0
    /\ sends = 0
    /\ proc = [p \in Procs |-> IdleProc]
    /\ calls = 0
    /\ ticks = 0

Init == InitWith(Configs)

InProgress(q) == proc[q].st \in {"fetch", "sleep"}

\* the machine a task of caller p runs on: the caller's stack and the shared fields
Machine(p, sig) ==
    [stack |-> proc[p].stack, timers |-> proc[p].timers, sig |-> sig, msg |-> proc[p].msg,
     tok |-> accessToken, refreshTimer |-> tokenRefreshTimer, orphans |-> orphanTimers,
     rc |-> retryCount,
     seq |-> seq, sends |-> sends, now |-> now, cfg |-> config, obs |-> proc[p].obs]

\* the caller's record once its task has run: suspended on a fetch or a timer, or settled
After(pr, M) ==
    [pr EXCEPT
        !.st = CASE M.sig.k = "fetch" -> "fetch"
                 [] M.sig.k = "sleep" -> "sleep"
                 [] OTHER -> "done",
        !.stack = M.stack,
        !.msg = M.msg,
        !.timers = M.timers,
        !.ep = IF M.sig.k = "fetch" THEN M.sig.ep ELSE "",
        !.reqId = IF M.sig.k = "fetch" /\ M.sig.ep = "token" THEN M.seq ELSE 0,
        !.wake = IF M.sig.k = "sleep" THEN M.now + M.sig.delay ELSE 0,
        !.result = IF M.sig.k \in {"ret", "throw"} THEN M.sig ELSE NoSig,
        !.endTok = IF M.sig.k \in {"ret", "throw"} THEN M.tok ELSE NoToken,
        !.obs = M.obs]

\* write the fields the task has changed back to the objects; when a call starts,
\* the callers it overlaps with are marked and the records of settled calls dropped
Commit(p, pr, M) ==
    /\ M.seq <= MaxTokReqs
    /\ M.sends <= MaxSendReqs
    /\ accessToken' = M.tok
    /\ tokenRefreshTimer' = M.refreshTimer
    /\ orphanTimers' = M.orphans
    /\ retryCount' = M.rc
    /\ seq' = M.seq
    /\ sends' = M.sends
    /\ proc' = [q \in Procs |->
                  IF q = p THEN After(pr, M)
                  ELSE IF pr.st = "idle" /\ InProgress(q)
                       THEN [proc[q] EXCEPT !.alone = FALSE]
                  ELSE IF pr.st = "idle" THEN IdleProc
                  ELSE proc[q]]

\* a caller that has no call in progress may start one
CanStart(p) == proc[p].st \in {"idle", "done"} /\ calls < MaxCalls

\* the task of q was a run of the interval's callback whose refresh failed
FailedBackground(q) ==
    /\ proc[q].op = "tokenRefreshCallback"
    /\ proc[q].st = "done"
    /\ Count(proc[q].obs.log, "refreshFailed") > 0

\* the token the client held when the background refresh that has just failed began
\* (NoToken when the task that settled last was not a failed background refresh)
HeldToken ==
    IF \E q \in Procs : FailedBackground(q)
    THEN proc[CHOOSE q \in Procs : FailedBackground(q)].startTok
    ELSE NoToken

\* the caller p starts the top-level call op, which runs up to its first await
Start(p, op, message) ==
    /\ calls' = calls + 1
    /\ LET pr == [IdleProc EXCEPT !.op = op, !.startTok = accessToken,
                                  !.startRc = retryCount, !.startNow = now,
                                  !.heldTok = HeldToken,
                                  !.alone = \A q \in Procs \ {p} : ~InProgress(q)]
           M == Exec([Machine(p, SigCall(op, "", 0)) EXCEPT
                        !.stack = <<>>, !.timers = {}, !.obs = NoObs, !.msg = message])
       IN Commit(p, pr, M)
    /\ UNCHANGED <<config, now, ttl, ticks, pure>>

CallGetAccessToken(p) ==
    /\ CanStart(p)
    /\ Start(p, "getAccessToken", NoMessage)

CallRefreshAccessToken(p) ==
    /\ CanStart(p)
    /\ Start(p, "refreshAccessToken", NoMessage)

\* the message of sendText(to, text): a text for a user
CallSend(p) ==
    /\ CanStart(p)
    /\ Start(p, "send", [NoMessage EXCEPT !.peer = [kind |-> "dm", id |-> "u1"],
                                          !.text = <<"h", "i">>])

\* the arguments of sendMedia(to, media): no item, one item, two items; an item
\* carries data and has no media id (url) yet
CallSendMedia(p) ==
    /\ CanStart(p)
    /\ \E media \in {<<>>,
                      <<[type |-> "image", url |-> 0, caption |-> <<>>]>>,
                      <<[type |-> "audio", url |-> 0, caption |-> <<"c">>],
                        [type |-> "image", url |-> 0, caption |-> <<>>]>>} :
          Start(p, "sendMedia", [NoMessage EXCEPT !.peer = [kind |-> "dm", id |-> "u1"],
                                                  !.media = media])

\* sendCard(to, title, ...): a card for a user
CallSendCard(p) ==
    /\ CanStart(p)
    /\ Start(p, "sendCard", [NoMessage EXCEPT !.peer = [kind |-> "dm", id |-> "u1"],
                                              !.text = <<"t">>])

\* initialize() is called on a client whose interval is not set
CallInitialize(p) ==
    /\ CanStart(p)
    /\ tokenRefreshTimer = 0
    /\ Start(p, "initialize", NoMessage)

\* refreshes nested inside token requests on a stack
NestDepth(stack) ==
    Cardinality({i \in 1..Len(stack) :
                    stack[i].fn = "request" /\ stack[i].at = "refresh" /\ stack[i].ep = "token"})

\* what the vendor (or the transport) may answer to the pending request of p; the
\* upload endpoint returns a media id (7, 8) or answers an errcode (40004, 42001)
Responses(p) ==
    IF proc[p].ep = "token"
    THEN {SigNet("data", Data(0, proc[p].reqId, ttl)), SigNet("data", Data(0, 0, ttl))}
         \cup {SigNet("data", Data(c, 0, 0)) :
                 c \in {c \in TokenErrCodes :
                          c \in AuthCodes => NestDepth(proc[p].stack) < MaxNest}}
         \cup {SigNet("http", NoData), SigNet("timeout", NoData)}
    ELSE IF proc[p].ep = "upload"
    THEN {SigNet("data", UploadData(0, id)) : id \in {7, 8}}
         \cup {SigNet("data", UploadData(c, 0)) : c \in {40004, 42001}}
         \cup {SigNet("http", NoData), SigNet("timeout", NoData)}
    ELSE {SigNet("data", SendData(c, IF c = 0 THEN sends ELSE 0, 0)) : c \in SendCodes}
         \cup {SigNet("data", SendData(0, 0, sends))}
         \cup {SigNet("http", NoData), SigNet("timeout", NoData)}

\* the deadline of the abort timer of the pending fetch of p
Deadline(p) ==
    LET t == CHOOSE t \in proc[p].timers : t.id = Len(proc[p].stack) IN t.deadline

\* the pending fetch of p settles: a response arrives before the abort timer fires,
\* or the timer fires at its deadline (the earliest deadline first) and the fetch
\* is aborted
RespondWith(p, responses) ==
    /\ proc[p].st = "fetch"
    /\ \E r \in responses :
          /\ r.kind = "timeout" =>
                \A q \in Procs : proc[q].st = "fetch" => Deadline(p) <= Deadline(q)
          /\ LET at == IF r.kind = "timeout" /\ now < Deadline(p) THEN Deadline(p) ELSE now
             IN  /\ now' = at
                 /\ Commit(p, proc[p], Exec([Machine(p, r) EXCEPT !.now = at]))
    /\ UNCHANGED <<config, ttl, calls, ticks, pure>>

Respond(p) == RespondWith(p, Responses(p))

\* the vendor answers the pending request of p: a token request with a token, a send
\* request with errcode 0, with a code that is retried (45009) or with a token error
\* (42001)
Answer(p) ==
    RespondWith(p, {r \in Responses(p) :
                       /\ r.kind = "data"
                       /\ r.data.errcode \in {0, 45009, 42001}
                       /\ r.data.data.msgid = 0
                       /\ proc[p].ep = "token" =>
                             (r.data.errcode = 0 /\ r.data.access_token # 0)})

\* the backoff timer of p fires: timers fire in the order of their deadlines, and
\* the callback runs at its deadline, or at the present when that is later
Wake(p) ==
    /\ proc[p].st = "sleep"
    /\ \A q \in Procs : proc[q].st = "sleep" => proc[p].wake <= proc[q].wake
    /\ LET at == IF now >= proc[p].wake THEN now ELSE proc[p].wake
       IN  /\ now' = at
           /\ Commit(p, proc[p], Exec([Machine(p, [NoSig EXCEPT !.k = "woken"]) EXCEPT
                                         !.now = at]))
    /\ UNCHANGED <<config, ttl, calls, ticks, pure>>

\* the interval set by initialize() fires: its callback runs as a task of its own
\* (p), at the time the interval is due or at the present when that is later, and
\* never before a timer that is due earlier; the interval fires again one period on
IntervalFire(p) ==
    /\ tokenRefreshTimer # 0
    /\ proc[p].st \in {"idle", "done"}
    /\ \A q \in Procs : proc[q].st = "fetch" =>
            (now >= tokenRefreshTimer \/ tokenRefreshTimer <= Deadline(q))
    /\ \A q \in Procs : proc[q].st = "sleep" =>
            (now >= tokenRefreshTimer \/ tokenRefreshTimer <= proc[q].wake)
    /\ LET at == IF now >= tokenRefreshTimer THEN now ELSE tokenRefreshTimer
           pr == [IdleProc EXCEPT !.op = "tokenRefreshCallback", !.startTok = accessToken,
                                  !.startRc = retryCount, !.startNow = at,
                                  !.alone = \A q \in Procs \ {p} : ~InProgress(q)]
           M == Exec([Machine(p, SigCall("tokenRefreshCallback", "", 0)) EXCEPT
                        !.stack = <<>>, !.timers = {}, !.obs = NoObs, !.msg = NoMessage,
                        !.now = at,
                        !.refreshTimer = tokenRefreshTimer + RefreshIntervalMs(config)])
       IN  /\ now' = at
           /\ Commit(p, pr, M)
    /\ UNCHANGED <<config, ttl, calls, ticks, pure>>

\* an interval the handle no longer names fires: its callback runs as a task of
\* its own (p), like the callback of the interval the handle names
OrphanFire(p) ==
    /\ proc[p].st \in {"idle", "done"}
    /\ \E i \in 1..Len(orphanTimers) :
          LET due == orphanTimers[i]
              at == IF now >= due THEN now ELSE due
              pr == [IdleProc EXCEPT !.op = "tokenRefreshCallback",
                                     !.startTok = accessToken,
                                     !.startRc = retryCount, !.startNow = at,
                                     !.alone = \A q \in Procs \ {p} : ~InProgress(q)]
              M == Exec([Machine(p, SigCall("tokenRefreshCallback", "", 0)) EXCEPT
                           !.stack = <<>>, !.timers = {}, !.obs = NoObs, !.msg = NoMessage,
                           !.now = at,
                           !.orphans = [@ EXCEPT ![i] = due + RefreshIntervalMs(config)]])
          IN  /\ \A q \in Procs : proc[q].st = "fetch" => (now >= due \/ due <= Deadline(q))
              /\ tokenRefreshTimer # 0 => (now >= due \/ due <= tokenRefreshTimer)
              /\ now' = at
              /\ Commit(p, pr, M)
    /\ UNCHANGED <<config, ttl, calls, ticks, pure>>

\* destroy(): the interval the handle names is cleared and the handle set to null;
\* without a handle nothing happens
Destroy ==
    /\ tokenRefreshTimer # 0
    /\ tokenRefreshTimer' = 0
    /\ UNCHANGED <<config, accessToken, orphanTimers, retryCount, now, ttl, seq, sends, proc,
                   calls, ticks, pure>>

\* time passes between calls; while a call is in progress the clock advances with
\* the timers the call waits for (Wake)
Tick ==
    /\ ticks < MaxTicks
    /\ \A p \in Procs : ~InProgress(p)
    /\ ticks' = ticks + 1
    /\ now' = now + TickMs
    /\ UNCHANGED <<config, accessToken, tokenRefreshTimer, orphanTimers, retryCount, ttl, seq,
                   sends, proc, calls, pure>>

\* one caller at a time uses a sender and its client
Next ==
    \/ \E p \in Solo : CallGetAccessToken(p)
    \/ \E p \in Solo : CallRefreshAccessToken(p)
    \/ \E p \in Solo : CallSend(p)
    \/ \E p \in Solo : Respond(p)
    \/ \E p \in Solo : Wake(p)
    \/ Tick

Spec == Init /\ [][Next]_vars

\* concurrent callers of one client: the token lifecycle alone (maxRetries plays no part)
InitToken == Init /\ config.maxRetries = 0

NextToken ==
    \/ \E p \in Procs : CallGetAccessToken(p)
    \/ \E p \in Procs : CallRefreshAccessToken(p)
    \/ \E p \in Procs : Respond(p)
    \/ Tick

SpecToken == InitToken /\ [][NextToken]_vars

\* sendMedia() on a sender with credentials that retries once; the token lives
\* 7200 s, so the clock moves only with the retry delays and the request timeouts
InitMedia == Init /\ config.hasCreds /\ config.maxRetries = 1 /\ ttl = 7200

NextMedia ==
    \/ \E p \in Solo : CallSendMedia(p)
    \/ \E p \in Solo : Respond(p)
    \/ \E p \in Solo : Wake(p)

SpecMedia == InitMedia /\ [][NextMedia]_vars

\* requests with a timeout: timeoutMs unset (10000 ms) or configured, on a sender
\* with credentials that retries once and whose tokens live 7200 s
InitTimeout ==
    /\ InitWith([hasCreds : {TRUE}, webhookUrl : {FALSE}, maxRetries : {1}, agentId : {1},
                 messagePrefix : {<<>>}, timeoutMs : {0, 5000},
                 tokenRefreshInterval : {0}, proxy : {FALSE}])
    /\ ttl = 7200

SpecTimeout == InitTimeout /\ [][Next]_vars

\* a sender without corpId and corpSecret (webhookUrl alone, or nothing): no call
\* ever awaits a response or a timer
InitNoCreds == InitWith({c \in Configs : ~c.hasCreds})

NextNoCreds ==
    \/ \E p \in Solo : CallGetAccessToken(p)
    \/ \E p \in Solo : CallRefreshAccessToken(p)
    \/ \E p \in Solo : CallSend(p)
    \/ Tick

SpecNoCreds == InitNoCreds /\ [][NextNoCreds]_vars

\* a sender with credentials, with and without config.proxy, that sends texts and
\* media; it retries once and its tokens live 7200 s
InitProxy ==
    /\ InitWith([hasCreds : {TRUE}, webhookUrl : {FALSE}, maxRetries : {1}, agentId : {1},
                 messagePrefix : {<<>>}, timeoutMs : {0}, tokenRefreshInterval : {0},
                 proxy : BOOLEAN])
    /\ ttl = 7200

NextProxy ==
    \/ \E p \in Solo : CallSend(p)
    \/ \E p \in Solo : CallSendMedia(p)
    \/ \E p \in Solo : Respond(p)
    \/ \E p \in Solo : Wake(p)

SpecProxy == InitProxy /\ [][NextProxy]_vars

\* a client whose token is refreshed in the background: initialize() sets the
\* interval, a caller asks for the token, the interval's callback runs as a task
\* of its own; the tokens live 7200 s
\* config.tokenRefreshInterval: 0 (unset) or 1800 s
InitBackground ==
    /\ InitWith([hasCreds : {TRUE}, webhookUrl : {FALSE}, maxRetries : {0}, agentId : {1},
                 messagePrefix : {<<>>}, timeoutMs : {0},
                 tokenRefreshInterval : {0, 1800}, proxy : {FALSE}])
    /\ ttl = 7200

NextBackground ==
    \/ \E p \in Solo : CallInitialize(p)
    \/ \E p \in Solo : CallGetAccessToken(p)
    \/ \E p \in Procs \ Solo : IntervalFire(p)
    \/ \E p \in Procs : Respond(p)
    \/ Tick

SpecBackground == InitBackground /\ [][NextBackground]_vars

\* the functions without state, each applied to arguments drawn at the start
InitPure ==
    /\ pure \in PureInputs
    /\ config = [hasCreds |-> TRUE, webhookUrl |-> FALSE, maxRetries |-> 0,
                 agentId |-> 1, messagePrefix |-> <<>>, timeoutMs |-> 0,
                 tokenRefreshInterval |-> 0, proxy |-> FALSE]
    /\ accessToken = NoToken
    /\ tokenRefreshTimer = 0
    /\ orphanTimers = <<>>
    /\ retryCount = 0
    /\ now = 0
    /\ ttl = 7200
    /\ seq = 0
    /\ sends = 0
    /\ proc = [p \in Procs |-> IdleProc]
    /\ calls = 0
    /\ ticks = 0

senderVars == <<config, accessToken, tokenRefreshTimer, orphanTimers, retryCount, now, ttl,
                seq, sends, proc, calls, ticks>>

\* validateWeComConfig(config)
ValidateConfig ==
    /\ pure.fn = ""
    /\ pure.kind = "config"
    /\ pure' = [pure EXCEPT !.fn = "validateWeComConfig",
                            !.errors = validateWeComConfig(pure.cfg)]
    /\ UNCHANGED senderVars

\* adapter.toWeComMessage(message), as send() calls it
ToWeComMessage ==
    /\ pure.fn = ""
    /\ pure.kind = "message"
    /\ pure' = [pure EXCEPT !.fn = "toWeComMessage",
                            !.env = toWeComMessage(pure.msg, pure.cfg.agentId,
                                                   pure.cfg.messagePrefix)]
    /\ UNCHANGED senderVars

\* the message whose text is the prefixed text of the message before goes through
\* toWeComMessage again
Retransform ==
    /\ pure.fn = "toWeComMessage"
    /\ LET msg == [pure.msg EXCEPT !.text = contentText(@, pure.cfg.messagePrefix)]
       IN pure' = [pure EXCEPT !.fn = "retransform",
                               !.msg = msg,
                               !.prev = pure.env,
                               !.env = toWeComMessage(msg, pure.cfg.agentId,
                                                      pure.cfg.messagePrefix)]
    /\ UNCHANGED senderVars

\* sendCard(to, title, description, url, btntxt), up to the call of sendMessage
SendCard ==
    /\ pure.fn = ""
    /\ pure.kind = "message"
    /\ pure' = [pure EXCEPT !.fn = "sendCard",
                            !.env = sendCard_envelope(pure.msg.peer, pure.msg.text,
                                                      <<"d">>, <<"u">>, <<"b">>,
                                                      pure.cfg.agentId)]
    /\ UNCHANGED senderVars

NextPure ==
    \/ ValidateConfig
    \/ ToWeComMessage
    \/ Retransform
    \/ SendCard

SpecPure == InitPure /\ [][NextPure]_vars

\* the functions of the inbound side and the test configurations, each applied to
\* arguments drawn at the start
InitInbound ==
    /\ pure \in InboundInputs
    /\ config = [hasCreds |-> TRUE, webhookUrl |-> FALSE, maxRetries |-> 0,
                 agentId |-> 1, messagePrefix |-> <<>>, timeoutMs |-> 0,
                 tokenRefreshInterval |-> 0, proxy |-> FALSE]
    /\ accessToken = NoToken
    /\ tokenRefreshTimer = 0
    /\ orphanTimers = <<>>
    /\ retryCount = 0
    /\ now = 0
    /\ ttl = 7200
    /\ seq = 0
    /\ sends = 0
    /\ proc = [p \in Procs |-> IdleProc]
    /\ calls = 0
    /\ ticks = 0

\* adapter.fromWeComMessage(webhookData), as receive() calls it
FromWeComMessage ==
    /\ pure.fn = ""
    /\ pure.kind = "received"
    /\ pure' = [pure EXCEPT !.fn = "fromWeComMessage",
                            !.inbound = fromWeComMessage(pure.received)]
    /\ UNCHANGED senderVars

\* adapter.extractMentionedUsers(text)
ExtractMentionedUsers ==
    /\ pure.fn = ""
    /\ pure.kind = "text"
    /\ pure' = [pure EXCEPT !.fn = "extractMentionedUsers",
                            !.mentions = extractMentionedUsers(pure.text)]
    /\ UNCHANGED senderVars

\* adapter.extractMentionedUsers(text), called again on the same adapter
ExtractMentionedUsersAgain ==
    /\ pure.fn = "extractMentionedUsers"
    /\ pure' = [pure EXCEPT !.fn = "extractMentionedUsers again",
                            !.again = extractMentionedUsers(pure.text)]
    /\ UNCHANGED senderVars

\* validateWeComConfig(config) of a test configuration
ValidateFixture ==
    /\ pure.fn = ""
    /\ pure.kind = "fixture"
    /\ pure' = [pure EXCEPT !.fn = "validateWeComConfig",
                            !.errors = validateWeComConfig(pure.cfg)]
    /\ UNCHANGED senderVars

\* checkPermission(peer, config)
CheckPermission ==
    /\ pure.fn = ""
    /\ pure.kind = "permission"
    /\ pure' = [pure EXCEPT !.fn = "checkPermission",
                            !.granted = checkPermission(pure.peer, pure.dmPolicy,
                                                        pure.allowFrom)]
    /\ UNCHANGED senderVars

NextInbound ==
    \/ ValidateFixture
    \/ FromWeComMessage
    \/ CheckPermission
    \/ ExtractMentionedUsers
    \/ ExtractMentionedUsersAgain

SpecInbound == InitInbound /\ [][NextInbound]_vars

\* send() calls that overlap on one sender with credentials: both callers share
\* retryCount and the client's token; the tokens live 7200 s
InitSenders ==
    /\ InitWith([hasCreds : {TRUE}, webhookUrl : {FALSE}, maxRetries : {1, 2},
                 agentId : {1}, messagePrefix : {<<>>}, timeoutMs : {0},
                 tokenRefreshInterval : {0}, proxy : {FALSE}])
    /\ ttl = 7200

NextSenders ==
    \/ \E p \in Procs : CallSend(p)
    \/ \E p \in Procs : Answer(p)
    \/ \E p \in Procs : Wake(p)

SpecSenders == InitSenders /\ [][NextSenders]_vars

\* cards and messages sent one after the other on a sender with credentials; the
\* tokens live 7200 s
NextCard ==
    \/ \E p \in Solo : CallSend(p)
    \/ \E p \in Solo : CallSendCard(p)
    \/ \E p \in Solo : Respond(p)
    \/ \E p \in Solo : Wake(p)

SpecCard == InitSenders /\ [][NextCard]_vars

\* the life of a client: initialize() calls that may overlap, the callbacks of the
\* intervals they set, destroy(); the tokens live 7200 s
NextLifecycle ==
    \/ \E p \in Procs : CallInitialize(p)
    \/ \E p \in Procs : IntervalFire(p)
    \/ \E p \in Procs : OrphanFire(p)
    \/ \E p \in Procs : Respond(p)
    \/ Destroy

SpecLifecycle == InitBackground /\ [][NextLifecycle]_vars

\* ----------------------------------------------------------------- claims
Done(p) == proc[p].st = "done"
Returned(p) == Done(p) /\ proc[p].result.k = "ret"
Threw(p) == Done(p) /\ proc[p].result.k = "throw"
Events(p, e) == Count(proc[p].obs.log, e)

\* a getAccessToken() call of p that found no token or an expired one, has issued
\* its token request and has had no response yet
AwaitsFirstRefresh(p) ==
    /\ proc[p].op = "getAccessToken"
    /\ proc[p].st = "fetch"
    /\ proc[p].obs.log = <<"tokReq">>

\* C1: getAccessToken() calls that all start with no valid token, before any refresh
\* response arrives, await one and the same token request
C1_RefreshDedup ==
    \A p \in Procs : \A q \in Procs :
        (AwaitsFirstRefresh(p) /\ AwaitsFirstRefresh(q)) => proc[p].reqId = proc[q].reqId

\* getAccessToken() of p was called while the held token was unexpired
CalledWithValidToken(p) ==
    /\ proc[p].op = "getAccessToken"
    /\ proc[p].startTok # NoToken
    /\ proc[p].startNow < proc[p].startTok.expires_at

\* C2: a getAccessToken() call made while the held token is unexpired returns the
\* value of the held token, issues no request and stores nothing, so the calls of
\* such a sequence all return the same value
C2_TokenReuse ==
    \A p \in Procs :
        CalledWithValidToken(p) =>
            /\ Returned(p)
            /\ proc[p].result.val = proc[p].startTok.access_token
            /\ proc[p].obs.log = <<>>
            /\ proc[p].endTok = proc[p].startTok

C2_Witness ==
    \E p \in Procs : CalledWithValidToken(p) /\ Returned(p) /\ seq >= 1

\* getAccessToken() of p was called with a held token that had expired, and returned
ReturnedAfterExpiry(p) ==
    /\ proc[p].op = "getAccessToken"
    /\ Returned(p)
    /\ proc[p].startTok # NoToken
    /\ proc[p].startNow >= proc[p].startTok.expires_at

\* C3 as claimed: ... one token request, and the stored expires_at is strictly
\* greater than the one replaced, for every positive expires_in
C3_ProactiveRefresh_Original ==
    \A p \in Procs :
        ReturnedAfterExpiry(p) =>
            /\ Events(p, "tokReq") = 1
            /\ proc[p].endTok.expires_at > proc[p].startTok.expires_at

\* C3: a getAccessToken() call made with an expired held token makes exactly one
\* token request before it returns, and when the vendor's expires_in exceeds the
\* 300 s safety margin the stored expires_at is strictly greater than the one of the
\* token it replaced
C3_ProactiveRefresh ==
    \A p \in Procs :
        ReturnedAfterExpiry(p) =>
            /\ Events(p, "tokReq") = 1
            /\ proc[p].result.val = proc[p].endTok.access_token
            /\ proc[p].endTok.expires_in > SafetyMarginSec
                  => proc[p].endTok.expires_at > proc[p].startTok.expires_at

C3_Witness ==
    \E p \in Procs :
        /\ ReturnedAfterExpiry(p)
        /\ proc[p].endTok.expires_in > SafetyMarginSec
        /\ proc[p].endTok.access_token # proc[p].startTok.access_token

\* C4: a refreshAccessToken() call that fails has stored no token, and the error
\* reaches the caller
C4_FailedRefreshKeepsToken ==
    \A p \in Procs :
        (proc[p].op = "refreshAccessToken" /\ Threw(p)) => proc[p].obs.tokWrites = 0

C4_Witness ==
    \E p \in Procs :
        /\ proc[p].op = "refreshAccessToken" /\ Threw(p)
        /\ proc[p].startTok # NoToken
        /\ proc[p].alone /\ proc[p].endTok = proc[p].startTok

\* the codes C5 names
C5Codes == {42001, 40014, 45009, 45033}

\* send() of p started alone on a sender whose counter was 0, has settled, and every
\* send request it made was answered with one and the same code of C5Codes
AnsweredSameCode(p) ==
    /\ proc[p].op = "send"
    /\ Done(p)
    /\ proc[p].startRc = 0
    /\ proc[p].alone
    /\ proc[p].obs.firstCode \in C5Codes
    /\ proc[p].obs.sameCode
    /\ ~proc[p].obs.xport

\* C5 as claimed: ... send() issues exactly maxRetries + 1 send requests and fails
C5_RetryBound_Original ==
    \A p \in Procs :
        AnsweredSameCode(p) =>
            /\ Events(p, "sendReq") = MaxRetriesOf(config) + 1
            /\ Threw(p)

\* C5: on a sender whose counter is 0, with no other send running, if the vendor
\* answers every send request with the same code of {42001, 40014, 45009, 45033} and
\* every token request of the call succeeds, send() issues exactly maxRetries + 1
\* send requests (maxRetries backoffs) and then fails
C5_RetryBound ==
    \A p \in Procs :
        (AnsweredSameCode(p) /\ proc[p].obs.tokAllOk) =>
            /\ Events(p, "sendReq") = MaxRetriesOf(config) + 1
            /\ Events(p, "sleep") = MaxRetriesOf(config)
            /\ Threw(p)
            /\ proc[p].result.code = proc[p].obs.firstCode

C5_Witness ==
    \E p \in Procs :
        /\ AnsweredSameCode(p) /\ proc[p].obs.tokAllOk
        /\ config.maxRetries = 0
        /\ proc[p].obs.firstCode = 42001
        /\ Events(p, "sendReq") = DefaultMaxRetries + 1

\* send() of p has settled and the first answer to a send request carried a code
\* outside the retryable set
AnsweredFatalCode(p) ==
    /\ proc[p].op = "send"
    /\ Done(p)
    /\ proc[p].obs.firstCode \notin (retryableErrors \cup {0, -1})

\* C6: a send request answered with a code outside the retryable set (60111, 60123,
\* ...) is the only send request of the call: no backoff, an immediate failure
\* carrying that code, and no write of the retry counter
C6_NoRetryOnTargetError ==
    \A p \in Procs :
        AnsweredFatalCode(p) =>
            /\ Events(p, "sendReq") = 1
            /\ Events(p, "sleep") = 0
            /\ Threw(p)
            /\ proc[p].result.code = proc[p].obs.firstCode
            /\ proc[p].obs.rcWrites = 0

C6_Witness ==
    \E p \in Procs :
        /\ AnsweredFatalCode(p)
        /\ proc[p].obs.firstCode = 60111
        /\ proc[p].startRc < MaxRetriesOf(config)

\* send() of p has settled without success
SendFailed(p) ==
    /\ proc[p].op = "send"
    /\ Done(p)
    /\ ~(proc[p].result.k = "ret" /\ proc[p].result.success)

AnsweredWhenExhausted(p) ==
    /\ proc[p].op = "send"
    /\ Done(p)
    /\ proc[p].startRc >= MaxRetriesOf(config)
    /\ proc[p].obs.firstCode \in retryableErrors

\* the step in which a send() of p settles with success
SendSucceeds(p) ==
    /\ proc[p].st # "done"
    /\ proc'[p].st = "done"
    /\ proc'[p].op = "send"
    /\ proc'[p].result.k = "ret"
    /\ proc'[p].result.success

\* C8: the counter belongs to the sender: once exhausted, a later send() answered
\* with a retryable code makes one attempt and no retry; a successful send() sets
\* the counter to 0, and no other step decreases it
C8_CounterPerInstance ==
    /\ [](\A p \in Procs :
            AnsweredWhenExhausted(p) =>
                /\ Events(p, "sendReq") = 1
                /\ Events(p, "sleep") = 0
                /\ Threw(p))
    /\ [][\A p \in Procs : SendSucceeds(p) => retryCount' = 0]_vars
    /\ [][retryCount' < retryCount =>
             (retryCount' = 0 /\ \E p \in Procs : SendSucceeds(p))]_vars

C8_Witness ==
    \E p \in Procs :
        /\ AnsweredWhenExhausted(p)
        /\ proc[p].startTok # NoToken
        /\ retryCount = MaxRetriesOf(config)

\* the positions i < j of the log of p: an auth-error send response and the next
\* send request
AuthRetry(p, i, j) ==
    LET log == proc[p].obs.log IN
    /\ i \in 1..Len(log)
    /\ j \in 1..Len(log)
    /\ i < j
    /\ log[i] = "sendAuth"
    /\ log[j] = "sendReq"
    /\ \A k \in (i + 1)..(j - 1) : log[k] # "sendReq"

\* C9: between a send response carrying 42001 or 40014 and the retry's send request
\* the backoff elapses, then a token request is issued and its token stored, and
\* only then the send request is issued
C9_RefreshBeforeAuthRetry ==
    \A p \in Procs :
        LET log == proc[p].obs.log IN
        \A i \in 1..Len(log) : \A j \in 1..Len(log) :
            AuthRetry(p, i, j) =>
                \E w \in i..j : \E t \in i..j : \E u \in i..j :
                    /\ w < t /\ t < u /\ u < j
                    /\ log[w] = "wake"
                    /\ log[t] = "tokReq"
                    /\ log[u] = "tokStored"

C9_Witness ==
    \E p \in Procs :
        LET log == proc[p].obs.log IN
        \E i \in 1..Len(log) : \E j \in 1..Len(log) :
            AuthRetry(p, i, j) /\ ~NeedsRefresh(accessToken, now)

\* the first send() of p on a sender that holds no token has settled and its send
\* request was answered with errcode 0
FirstSendAnsweredOk(p) ==
    /\ proc[p].op = "send"
    /\ Done(p)
    /\ config.hasCreds
    /\ proc[p].startTok = NoToken
    /\ proc[p].obs.firstCode = 0

\* C10: the first send() with credentials and no token issues one token request,
\* stores its token, only then issues one send request, and succeeds when errcode 0
\* is answered
C10_FirstSend ==
    \A p \in Procs :
        FirstSendAnsweredOk(p) =>
            /\ proc[p].obs.log = <<"tokReq", "tokStored", "sendReq", "sendResp">>
            /\ Returned(p)
            /\ proc[p].result.success

C10_Witness ==
    \E p \in Procs : FirstSendAnsweredOk(p) /\ calls = 1

\* send() of p has settled and its latest send request was answered with errcode 0
\* and a msgid in the shape {errcode, errmsg, msgid}
AnsweredWithMsgid(p) ==
    /\ proc[p].op = "send"
    /\ Done(p)
    /\ proc[p].obs.lastCode = 0
    /\ proc[p].obs.lastMsgid # 0

\* C11: when the vendor answers a send request with errcode 0 and a msgid m in the
\* shape {errcode, errmsg, msgid}, send() returns success with messageId = m
C11_VendorMessageId ==
    \A p \in Procs :
        AnsweredWithMsgid(p) =>
            /\ Returned(p)
            /\ proc[p].result.success
            /\ proc[p].result.val = proc[p].obs.lastMsgid

\* send() of p has settled on a sender configured with webhookUrl alone
WebhookSend(p) ==
    /\ proc[p].op = "send"
    /\ Done(p)
    /\ config.webhookUrl
    /\ ~config.hasCreds

\* C12: in webhook mode send() never invokes token acquisition (no
\* refreshAccessToken(), no token request) and issues one POST to the webhook URL
C12_WebhookMode ==
    \A p \in Procs :
        WebhookSend(p) =>
            /\ proc[p].obs.tokCalls = 0
            /\ Events(p, "tokReq") = 0
            /\ Events(p, "webhookReq") = 1

\* the position of the first event e in a log (0: none)
FirstAt(log, e) ==
    IF \E i \in 1..Len(log) : log[i] = e
    THEN CHOOSE i \in 1..Len(log) : log[i] = e /\ \A j \in 1..(i - 1) : log[j] # e
    ELSE 0

\* C13: sendMedia() issues the upload request first and only after its success a
\* send request whose envelope carries the media id that upload returned; when the
\* upload fails no send request is issued, the upload is not repeated and the call
\* fails
C13_UploadThenSend ==
    \A p \in Procs :
        proc[p].op = "sendMedia" =>
            LET log == proc[p].obs.log IN
            /\ Events(p, "uploadReq") <= 1
            /\ Events(p, "sendReq") >= 1 =>
                  /\ FirstAt(log, "uploadReq") # 0
                  /\ FirstAt(log, "uploadReq") < FirstAt(log, "uploadOk")
                  /\ FirstAt(log, "uploadOk") < FirstAt(log, "sendReq")
                  /\ proc[p].obs.uploadId # 0
                  /\ proc[p].obs.envMedia = Some(proc[p].obs.uploadId)
            /\ (Done(p) /\ Events(p, "uploadOk") = 0) =>
                  /\ Events(p, "sendReq") = 0
                  /\ Threw(p)

C13_Witness ==
    \E p \in Procs :
        /\ proc[p].op = "sendMedia"
        /\ Returned(p)
        /\ proc[p].result.success
        /\ Len(proc[p].msg.media) = 1
        /\ proc[p].obs.uploadId = 8
        /\ proc[p].obs.envMedia = Some(8)
        /\ Events(p, "sendReq") = 2

\* C20: a request pending at its deadline (timeoutMs after it was issued, 10000 ms
\* when timeoutMs is unset) is aborted and fails with the timeout error, which no
\* other failure produces; every exit of request() clears its timer, so a request
\* that has completed has no timer left that could abort it
C20_Timeout ==
    \A p \in Procs :
        LET timeoutMs == IF config.timeoutMs # 0 THEN config.timeoutMs ELSE 10000 IN
        /\ \A t \in proc[p].timers :
              /\ t.id <= Len(proc[p].stack)
              /\ proc[p].stack[t.id].fn = "request"
        /\ proc[p].st = "fetch" =>
              /\ Deadline(p) = proc[p].obs.reqAt + timeoutMs
              /\ now <= Deadline(p)
        /\ proc[p].obs.abortAt # -1 => proc[p].obs.abortAt = proc[p].obs.reqAt + timeoutMs
        /\ Done(p) =>
              /\ proc[p].timers = {}
              /\ (Threw(p) /\ proc[p].result.msg = "timeout") <=> Events(p, "abort") = 1
              /\ Events(p, "abort") <= 1

C20_Witness ==
    \E p \in Procs :
        /\ proc[p].op = "send"
        /\ Threw(p)
        /\ proc[p].result.msg = "timeout"
        /\ config.timeoutMs = 5000
        /\ Events(p, "sendReq") = 2
        /\ proc[p].obs.abortAt = proc[p].obs.reqAt + 5000

\* C14: the delay waited before a retry is min(1000 * 2^attempt, 10000) ms, where
\* attempt is the number of retries made before this one (the counter before its
\* increment): 1000 ms before the first retry, 2000 ms before the second
C14_BackoffDelay ==
    \A p \in Procs :
        proc[p].st = "sleep" =>
            LET attempt == retryCount - 1 IN
            /\ proc[p].wake - now = Min(1000 * Pow2(attempt), 10000)
            /\ proc[p].wake - now <= 10000

\* send() of p has ended with a thrown WeComSendError
SendThrew(p) ==
    /\ proc[p].op = "send"
    /\ Threw(p)
    /\ proc[p].result.cls = "WeComSendError"

\* C15: isRecoverable() of a thrown WeComSendError is true exactly for the codes
\* 42001, 40014 and 45033, false for 45009, 50001 and 500 among all others,
\* whatever the retry counter and whether or not the retries were exhausted
C15_Recoverable ==
    \A p \in Procs :
        SendThrew(p) =>
            LET code == proc[p].result.code IN
            /\ code \in {42001, 40014, 45033} => isRecoverable(code)
            /\ code \notin {42001, 40014, 45033} => ~isRecoverable(code)
            /\ code \in {45009, 50001, 500} => ~isRecoverable(code)

C15_Witness ==
    \E p \in Procs :
        /\ SendThrew(p)
        /\ proc[p].result.code = 45033
        /\ proc[p].startRc = 0
        /\ retryCount = MaxRetriesOf(config)

\* the two credential modes as C16 reads them in a configuration
ApiPresent(c) == c.corpId # <<>> /\ c.corpSecret # <<>>
WebhookPresent(c) == c.webhookUrl # <<>>

\* C16: for an enabled configuration validateWeComConfig reports an error when both
\* modes are present (corpId and corpSecret with webhookUrl, with or without
\* agentId) and when neither is; no error only when exactly one mode is configured
C16_ExactlyOneMode ==
    (pure.fn = "validateWeComConfig" /\ pure.cfg.enabled) =>
        /\ (ApiPresent(pure.cfg) /\ WebhookPresent(pure.cfg)) => pure.errors # <<>>
        /\ (~ApiPresent(pure.cfg) /\ ~WebhookPresent(pure.cfg)) => pure.errors # <<>>

\* an envelope has been built for a peer of kind dm or group
EnvelopeBuilt ==
    /\ pure.fn \in {"toWeComMessage", "retransform", "sendCard"}
    /\ pure.msg.peer.kind \in {"dm", "group"}

\* the recipient fields of an envelope that are set
Recipients(env) ==
    {f \in {"touser", "toparty", "totag"} :
        CASE f = "touser" -> env.touser # Undefined
          [] f = "toparty" -> env.toparty # Undefined
          [] f = "totag" -> env.totag # Undefined}

\* C17: every envelope built for a peer of kind dm or group (text, media or card)
\* has exactly one of touser, toparty, totag set: touser = peer.id for dm,
\* toparty = peer.id for group
C17_OneRecipient ==
    EnvelopeBuilt =>
        /\ Cardinality(Recipients(pure.env)) = 1
        /\ pure.msg.peer.kind = "dm" => pure.env.touser = Some(pure.msg.peer.id)
        /\ pure.msg.peer.kind = "group" => pure.env.toparty = Some(pure.msg.peer.id)

C17_Witness ==
    /\ EnvelopeBuilt
    /\ pure.fn = "toWeComMessage"
    /\ pure.msg.peer.kind = "group"
    /\ Len(pure.msg.media) = 2
    /\ pure.env.toparty = Some("u1")

\* C18: toWeComMessage applies messagePrefix at most once: a text that does not
\* start with the prefix gets it prepended once, a text that starts with it is left
\* as it is, and the prefixed text passed through the transform again gives the
\* same envelope
C18_PrefixOnce ==
    LET prefix == pure.cfg.messagePrefix
        text == pure.msg.text
    IN  /\ (pure.fn = "toWeComMessage" /\ pure.msg.media = <<>> /\ pure.msg.replyTo = <<>>
              /\ prefix # <<>>) =>
                /\ StartsWith(text, prefix) => pure.env.content.content = Some(text)
                /\ ~StartsWith(text, prefix) =>
                       pure.env.content.content = Some(prefix \o text)
        /\ pure.fn = "retransform" => pure.env = pure.prev

C18_Witness ==
    /\ pure.fn = "retransform"
    /\ pure.cfg.messagePrefix = <<"[", "A", "I", "]", " ">>
    /\ pure.msg.replyTo = <<>>
    /\ pure.prev.content.content = Some(<<"[", "A", "I", "]", " ", "h", "i">>)
    /\ pure.env.content.content = Some(<<"[", "A", "I", "]", " ", "h", "i">>)

\* the vendor kind of a channel media type
VendorKind(type) ==
    CASE type = "image" -> "image"
      [] type = "audio" -> "voice"
      [] type = "video" -> "video"
      [] type = "file" -> "file"

\* C19: toWeComMessage gives msgtype text when media is empty; otherwise the vendor
\* kind of the first media item with that item's media id, and the envelope is the
\* one of the message that carries the first item alone
C19_FirstMedia ==
    LET media == pure.msg.media IN
    pure.fn = "toWeComMessage" =>
        /\ media = <<>> => pure.env.msgtype = "text"
        /\ (media # <<>> /\ media[1].type \in {"image", "audio", "video", "file"}) =>
              /\ pure.env.msgtype = VendorKind(media[1].type)
              /\ pure.env.content.media_id = Some(media[1].url)
              /\ pure.env = toWeComMessage([pure.msg EXCEPT !.media = <<media[1]>>],
                                           pure.cfg.agentId, pure.cfg.messagePrefix)

C19_Witness ==
    /\ pure.fn = "toWeComMessage"
    /\ Len(pure.msg.media) = 2
    /\ pure.msg.media[1].type = "audio"
    /\ pure.msg.media[2].type = "image"
    /\ pure.msg.media[1].url # pure.msg.media[2].url
    /\ pure.env.msgtype = "voice"

\* C21: a failure of a background refresh reaches no caller (the callback of the
\* interval settles without an exception) and leaves the held token as it was:
\* getAccessToken() calls made after it, before the held token's expires_at, return
\* the held token and issue no request
C21_BackgroundFailure ==
    /\ \A q \in Procs :
          (proc[q].op = "tokenRefreshCallback" /\ Done(q)) => Returned(q)
    /\ \A q \in Procs :
          (FailedBackground(q) /\ proc[q].alone) => proc[q].endTok = proc[q].startTok
    /\ \A p \in Procs :
          (/\ proc[p].op = "getAccessToken"
           /\ Done(p)
           /\ proc[p].heldTok # NoToken
           /\ proc[p].startNow < proc[p].heldTok.expires_at)
          => /\ Returned(p)
             /\ proc[p].result.val = proc[p].heldTok.access_token
             /\ Events(p, "tokReq") = 0

\* C22: the message fromWeComMessage returns for an inbound envelope has at least
\* one of text, media, location and event set, whatever the envelope's MsgType and
\* whichever of Content, MediaId, PicUrl and Event it carries
C22_NothingDropped ==
    pure.fn = "fromWeComMessage" =>
        \/ pure.inbound.text # <<>>
        \/ pure.inbound.media # <<>>
        \/ pure.inbound.location # Undefined
        \/ pure.inbound.event # Undefined

\* C23: send() on a sender without corpId and corpSecret fails at once, as a
\* WeComSendError of code 500: it awaits nothing, issues no request, waits for no
\* backoff and leaves the retry counter as it was
C23_ConfigErrorIsFatal ==
    \A p \in Procs :
        (proc[p].op = "send" /\ ~config.hasCreds) =>
            /\ Threw(p)
            /\ proc[p].result.cls = "WeComSendError"
            /\ proc[p].result.code = WrapErrorCode
            /\ proc[p].result.msg = "config"
            /\ proc[p].obs.log = <<>>
            /\ proc[p].obs.rcWrites = 0
            /\ retryCount = proc[p].startRc
            /\ seq = 0 /\ sends = 0

C23_Witness ==
    \E p \in Procs :
        /\ proc[p].op = "send"
        /\ ~config.hasCreds /\ ~config.webhookUrl
        /\ config.maxRetries = 2
        /\ Threw(p)
        /\ proc[p].obs.tokCalls = 1
        /\ calls = 2

\* C24: with config.proxy set, no request of a call (token, send, upload) goes to
\* the vendor directly
C24_ProxyHonoured ==
    config.proxy => \A p \in Procs : "direct" \notin proc[p].obs.routes

\* the attribution line of a reply: the sender's display name, or the fallback name
ReplyHeader(replyTo) ==
    <<"reply ">>
    \o (IF replyTo[1].senderName # <<>> THEN replyTo[1].senderName ELSE <<"user">>)
    \o <<":", "\n">>

\* C25: the envelope toWeComMessage builds for a message with replyTo, text or
\* media, has a content that begins with the attribution line; in a text envelope
\* the line is followed by the prefixed text
C25_ReplyAttribution ==
    (pure.fn \in {"toWeComMessage", "retransform"} /\ pure.msg.replyTo # <<>>) =>
        /\ pure.env.content.content # Undefined
        /\ StartsWith(pure.env.content.content[1], ReplyHeader(pure.msg.replyTo))
        /\ pure.msg.media = <<>> =>
              pure.env.content.content[1] =
                  ReplyHeader(pure.msg.replyTo)
                  \o contentText(pure.msg.text, pure.cfg.messagePrefix)

\* C26: the message translated from an inbound text envelope with Content c has
\* the text c and one mention per @token of c, in order: the tokens
\* extractMentionedUsers(c) returns
C26_InboundMentions ==
    (/\ pure.fn = "fromWeComMessage"
     /\ pure.received.MsgType = "text"
     /\ pure.received.Event = ""
     /\ pure.received.Content # <<>>) =>
        /\ pure.inbound.text = pure.received.Content
        /\ LET tokens == extractMentionedUsers(pure.received.Content) IN
           /\ Len(pure.inbound.mentions) = Len(tokens)
           /\ \A k \in 1..Len(tokens) : pure.inbound.mentions[k].userId = tokens[k]

\* the positions of text at which an @token begins: an "@" followed by a word
\* character
MentionPositions(text) ==
    {i \in 1..Len(text) : text[i] = "@" /\ i < Len(text) /\ text[i + 1] \in WordChars}

\* token is the @token of text that begins at position i: the longest run of word
\* characters behind the "@"
IsTokenAt(text, i, token) ==
    /\ Len(token) >= 1
    /\ i + Len(token) <= Len(text)
    /\ token = SubSeq(text, i + 1, i + Len(token))
    /\ \A k \in 1..Len(token) : token[k] \in WordChars
    /\ i + Len(token) < Len(text) => text[i + Len(token) + 1] \notin WordChars

\* C27: extractMentionedUsers(text) returns the @tokens of text in the order of
\* their positions, one entry per occurrence (the empty list when there is none),
\* and a second call on the same text returns the same list
C27_ExtractMentions ==
    /\ pure.fn \in {"extractMentionedUsers", "extractMentionedUsers again"} =>
          LET P == MentionPositions(pure.text) IN
          /\ Len(pure.mentions) = Cardinality(P)
          /\ \A i \in P :
                IsTokenAt(pure.text, i,
                          pure.mentions[Cardinality({j \in P : j < i}) + 1])
    /\ pure.fn = "extractMentionedUsers again" => pure.again = pure.mentions

C27_Witness ==
    /\ pure.fn = "extractMentionedUsers again"
    /\ pure.text = <<"@", "a", "@", "a">>
    /\ pure.again = <<<<"a">>, <<"a">>>>

\* C28: with dmPolicy 'open', checkPermission grants a peer exactly when allowFrom
\* contains '*' or the peer's id; any other peer is denied
C28_AllowList ==
    (pure.fn = "checkPermission" /\ pure.dmPolicy = "open") =>
        (pure.granted <=> ("*" \in pure.allowFrom \/ pure.peer.id \in pure.allowFrom))

\* C29: validateWeComConfig reports no error for the two test configurations named
\* valid and at least one error for each of the five named invalid
C29_Fixtures ==
    (pure.fn = "validateWeComConfig" /\ pure.kind = "fixture") =>
        (pure.errors = <<>>
            <=> pure.name \in {"validEnterpriseConfig", "validWebhookConfig"})

\* C30: with maxRetries = 0 a send() whose first send request is answered with a
\* retryable code makes no retry: it waits for no backoff and issues no second
\* send request
C30_ZeroRetries ==
    \A p \in Procs :
        (/\ proc[p].op = "send"
         /\ config.maxRetries = 0
         /\ proc[p].obs.firstCode \in retryableErrors) =>
            /\ Events(p, "sendReq") = 1
            /\ Events(p, "sleep") = 0

\* C31: in every state of a sender, whatever the interleaving of the send() calls
\* that run on it, retryCount lies between 0 and the effective maxRetries
\* (config.maxRetries, 3 when unset): shouldRetry's test and retrySend's increment
\* run in one task
C31_CounterInRange ==
    retryCount \in 0..MaxRetriesOf(config)

C31_Witness ==
    /\ retryCount = MaxRetriesOf(config)
    /\ \A p \in Procs :
          /\ proc[p].op = "send"
          /\ proc[p].st = "sleep"
          /\ ~proc[p].alone
          /\ Events(p, "sleep") >= 1

\* C32: a send() call issues at most maxRetries + 1 send requests, also when
\* another send() call runs on the same sender at the same time
C32_RetryBoundPerCall ==
    \A p \in Procs :
        proc[p].op = "send" => Events(p, "sendReq") <= MaxRetriesOf(config) + 1

\* C33: a refreshAccessToken() call on a client with credentials issues one token
\* request, no more, and has issued exactly one when it settles, whatever the
\* vendor answers to that request
C33_RefreshOneRequest ==
    \A p \in Procs :
        (proc[p].op = "refreshAccessToken" /\ config.hasCreds) =>
            /\ Events(p, "tokReq") <= 1
            /\ Done(p) => Events(p, "tokReq") = 1

\* C34: between a send response carrying 42001 or 40014 and the send request of
\* the retry, a call issues at most one token request
C34_OneRefreshPerAuthFailure ==
    \A p \in Procs :
        LET log == proc[p].obs.log IN
        \A i \in 1..Len(log) : \A j \in 1..Len(log) :
            AuthRetry(p, i, j) =>
                Cardinality({t \in i..j : log[t] = "tokReq"}) <= 1

\* C36: a token is named by the token request that returned it, in the order the
\* requests were issued; no step replaces the stored token by the token of a request
\* issued earlier, so once every refresh in flight has completed the client holds
\* the token of the request issued last
C36_NewestTokenWins ==
    [][accessToken'.access_token >= accessToken.access_token]_vars

\* C37: a sendMedia() call issues at most one upload request, exactly one when a
\* send retry follows, and every send request of the call, the retries included,
\* carries the media id that upload returned; with an empty media list the call
\* fails without having issued any request
C37_UploadOnce ==
    \A p \in Procs :
        proc[p].op = "sendMedia" =>
            /\ Events(p, "uploadReq") <= 1
            /\ Events(p, "sleep") >= 1 =>
                  /\ Events(p, "uploadReq") = 1
                  /\ proc[p].obs.envMedia = Some(proc[p].obs.uploadId)
            /\ proc[p].msg.media = <<>> =>
                  /\ Threw(p)
                  /\ proc[p].result.cls = "Error"
                  /\ proc[p].obs.log = <<>>

C37_Witness ==
    \E p \in Procs :
        /\ proc[p].op = "sendMedia"
        /\ Threw(p)
        /\ proc[p].obs.firstCode = 45009
        /\ proc[p].obs.uploadId = 7
        /\ Events(p, "sleep") = 1
        /\ Events(p, "sendReq") = 2
        /\ Events(p, "uploadReq") = 1

\* C38: a sendCard() call issues at most one send request and never waits for a
\* backoff, whatever the vendor answers; it returns a success for errcode 0 and
\* throws for every other code, the retryable ones included; it writes retryCount
\* at no point, so the counter is what it was when the call began
C38_CardSentOnce ==
    \A p \in Procs :
        proc[p].op = "sendCard" =>
            /\ Events(p, "sendReq") <= 1
            /\ Events(p, "sleep") = 0
            /\ proc[p].obs.rcWrites = 0
            /\ retryCount = proc[p].startRc
            /\ (Done(p) /\ proc[p].obs.firstCode = 0) =>
                  (Returned(p) /\ proc[p].result.success)
            /\ (Done(p) /\ proc[p].obs.firstCode \notin {0, -1}) =>
                  (Threw(p) /\ Events(p, "sendReq") = 1)

C38_Witness ==
    \E p \in Procs :
        /\ proc[p].op = "sendCard"
        /\ Threw(p)
        /\ proc[p].startRc >= 1
        /\ proc[p].obs.firstCode = 45009
        /\ proc[p].result.code = 45009
        /\ retryCount = proc[p].startRc

\* send() of p has settled and one of its send requests got no response body: it
\* timed out, or the transport or the HTTP status failed
TransportFailed(p) ==
    /\ proc[p].op = "send"
    /\ Done(p)
    /\ proc[p].obs.xport

\* C39: a send request that times out or fails in transport ends send(): the call
\* throws a WeComSendError with code 500, issues no request and waits for no
\* backoff after the failure, and the failure writes nothing to retryCount; when
\* the first send request fails that way, the call has issued exactly one send
\* request and the counter is what it was when the call began
C39_TransportFailureIsFinal ==
    \A p \in Procs :
        TransportFailed(p) =>
            LET log == proc[p].obs.log
                last == CHOOSE i \in 1..Len(log) :
                            log[i] = "sendReq" /\ \A j \in (i + 1)..Len(log) : log[j] # "sendReq"
            IN  /\ Threw(p)
                /\ proc[p].result.cls = "WeComSendError"
                /\ proc[p].result.code = WrapErrorCode
                /\ \A j \in (last + 1)..Len(log) : log[j] \in {"sendResp", "abort"}
                /\ proc[p].obs.rcWrites = Events(p, "sleep")
                /\ retryCount = proc[p].startRc + Events(p, "sleep")
                /\ proc[p].obs.firstCode = -1 =>
                      /\ Events(p, "sendReq") = 1
                      /\ retryCount = proc[p].startRc

C39_Witness ==
    \E p \in Procs :
        /\ TransportFailed(p)
        /\ proc[p].obs.firstCode = -1
        /\ proc[p].result.msg = "timeout"
        /\ proc[p].startRc >= 1
        /\ retryCount = proc[p].startRc

\* C35: a background refresh starts only while the client holds the handle of an
\* interval, that is, never after destroy() has cleared the handle (until the
\* client is initialized again), however often initialize() was called before;
\* and an initialize() call whose first refresh fails sets no interval
C35_NoRefreshAfterDestroy ==
    /\ [][\A p \in Procs :
            (/\ proc[p].st \in {"idle", "done"}
             /\ proc'[p].st = "fetch"
             /\ proc'[p].op = "tokenRefreshCallback") => tokenRefreshTimer # 0]_vars
    /\ [](\A p \in Procs :
            (proc[p].op = "initialize" /\ Threw(p)) => Events(p, "setInterval") = 0)

====
